---- MODULE Spec2Model ----
(***************************************************************************)
(* A model of svg-weathermap-placer: the gradient resolver                 *)
(* (gradientColorForValue), the Bezier splitter (halveCubicBezier) and the *)
(* renderer (renderWeathermapInto with placeNodes and placeEdges).         *)
(*                                                                         *)
(* Strings the program builds are sequences of one-character strings, so   *)
(* that formatting and parsing are computed and not assumed.  A JavaScript *)
(* number is a record: [num |-> n] for a finite number, NaN for NaN.       *)
(***************************************************************************)
EXTENDS Integers, Sequences, FiniteSets, TLC

VARIABLES
    \* gradient resolver
    gradient,       \* the Gradient handed to gradientColorForValue
    colorType,      \* "strokeColor" or "fillColor"
    value,          \* the value looked up, a JavaScript number
    result,         \* what gradientColorForValue returned
    gpc,            \* "idle" before the call, "returned" after it
    \* Bezier splitter
    curve,          \* the segment first handed to halveCubicBezier
    halved,         \* the 7 points halveCubicBezier returned for curve
    segments,       \* the segments obtained by halving curve depth times
    depth,          \* how often every segment has been halved
    \* renderer
    config,         \* the WeathermapConfig handed to renderWeathermapInto
    currentValues,  \* the MetricValueMap handed to renderWeathermapInto
    linkResolver,   \* null, or the base URL the link resolver answers with
    state,          \* the WeathermapRendererState: lookups and link bases
    svg,            \* the groups of the SVG document and their children
    rpc,            \* the next step of renderWeathermapInto
    container,      \* what earlier invocations left in the container
    \* normalizeAngle
    angleInput,     \* the angle handed to normalizeAngle
    runningAngle,   \* the parameter angleRadians as the loops change it
    npc             \* the loop normalizeAngle is in, or "returned"

gvars == <<gradient, colorType, value, result, gpc>>

bvars == <<curve, halved, segments, depth>>

rvars == <<config, currentValues, linkResolver, state, svg, rpc, container>>

nvars == <<angleInput, runningAngle, npc>>

vars == <<gvars, bvars, rvars, nvars>>

-----------------------------------------------------------------------------
(* JavaScript numbers *)

NaN == [nan |-> TRUE]

Num(n) == [num |-> n]

IsNaN(a) == a = NaN

\* a < b and a >= b of JavaScript: every comparison with NaN is false
JsLt(a, b) == ~IsNaN(a) /\ ~IsNaN(b) /\ a.num < b.num

JsGe(a, b) == ~IsNaN(a) /\ ~IsNaN(b) /\ a.num >= b.num

JsAdd(a, b) == IF IsNaN(a) \/ IsNaN(b) THEN NaN ELSE Num(a.num + b.num)

JsSub(a, b) == IF IsNaN(a) \/ IsNaN(b) THEN NaN ELSE Num(a.num - b.num)

\* a / 2.0
JsHalf(a) == IF IsNaN(a) THEN NaN ELSE Num(a.num \div 2)

null == [null |-> TRUE]

-----------------------------------------------------------------------------
(* Each specification below runs one part of the program; the variables of   *)
(* the other parts then keep these values.                                   *)

GUnused ==
    /\ gradient = [type |-> "linear", stops |-> <<>>]
    /\ colorType = "strokeColor"
    /\ value = NaN
    /\ result = <<>>
    /\ gpc = "idle"

BUnused ==
    /\ curve = null
    /\ halved = <<>>
    /\ segments = <<>>
    /\ depth = 0

RUnused ==
    /\ config = null
    /\ currentValues = null
    /\ linkResolver = null
    /\ state = null
    /\ svg = null
    /\ rpc = "unused"
    /\ container = <<>>

NUnused ==
    /\ angleInput = NaN
    /\ runningAngle = NaN
    /\ npc = "unused"

-----------------------------------------------------------------------------
(* Strings *)

Digit == <<"0", "1", "2", "3", "4", "5", "6", "7", "8", "9">>

\* `${n}` for an integer n >= 0
RECURSIVE Dec(_)
Dec(n) == IF n < 10 THEN <<Digit[n + 1]>> ELSE Dec(n \div 10) \o <<Digit[(n % 10) + 1]>>

\* the value of one hexadecimal digit, as Number.parseInt(_, 16) reads it
HexVal(c) ==
    CASE c = "0" -> 0  [] c = "1" -> 1  [] c = "2" -> 2  [] c = "3" -> 3
      [] c = "4" -> 4  [] c = "5" -> 5  [] c = "6" -> 6  [] c = "7" -> 7
      [] c = "8" -> 8  [] c = "9" -> 9
      [] c \in {"a", "A"} -> 10  [] c \in {"b", "B"} -> 11
      [] c \in {"c", "C"} -> 12  [] c \in {"d", "D"} -> 13
      [] c \in {"e", "E"} -> 14  [] c \in {"f", "F"} -> 15

\* Number.parseInt(color.substr(start, 2), 16) for a #RRGGBB colour;
\* start is the 0-based index of substr
ParseChannel(color, start) == 16 * HexVal(color[start + 1]) + HexVal(color[start + 2])

-----------------------------------------------------------------------------
(* Geometry.  A length is a finite JavaScript number counted in units of     *)
(* 1/Unit, so that every midpoint taken while a segment with integer         *)
(* coordinates is halved Levels times over is exact, as it is in binary      *)
(* floating point.                                                           *)

Levels == 3

Unit == 2 ^ (3 * Levels)

Point(px, py) == [x |-> Num(px * Unit), y |-> Num(py * Unit)]

CoordValues == {0, 3, 10}

Points == {Point(px, py) : px \in CoordValues, py \in CoordValues}

midpointMut(point1, point2) ==
    [x |-> JsAdd(point1.x, point2.x), y |-> JsAdd(point1.y, point2.y)]

midpoint(point1, point2) ==
    [x |-> JsHalf(JsAdd(point1.x, point2.x)), y |-> JsHalf(JsAdd(point1.y, point2.y))]

\* returns m2 where the second control point of the first half belongs
halveCubicBezierMutQ(point1, control1, control2, point2) ==
    IF control1 = null /\ control2 = null
    THEN LET straightMidpoint == midpoint(point1, point2)
         IN  <<point1, point1, straightMidpoint, straightMidpoint, straightMidpoint, point2, point2>>
    ELSE
        LET c1 == IF control1 = null THEN point1 ELSE control1
            c2 == IF control2 = null THEN point2 ELSE control2
            m1 == midpoint(point1, c1)
            m2 == midpoint(c1, c2)
            m3 == midpoint(c2, point2)
            q1 == midpoint(m1, m2)
            q2 == midpoint(m2, m3)
            o == midpoint(q1, q2)
        IN  <<point1, m1, m2, o, q2, m3, point2>>

\* the straight line goes through the general algorithm
halveCubicBezierMutLine(point1, control1, control2, point2) ==
    LET c1 == IF control1 = null THEN point1 ELSE control1
        c2 == IF control2 = null THEN point2 ELSE control2
        m1 == midpoint(point1, c1)
        m2 == midpoint(c1, c2)
        m3 == midpoint(c2, point2)
        q1 == midpoint(m1, m2)
        q2 == midpoint(m2, m3)
        o == midpoint(q1, q2)
    IN  <<point1, m1, q1, o, q2, m3, point2>>

\* a missing second control point is put on the first end point
halveCubicBezierMutSecond(point1, control1, control2, point2) ==
    IF control1 = null /\ control2 = null
    THEN LET straightMidpoint == midpoint(point1, point2)
         IN  <<point1, point1, straightMidpoint, straightMidpoint, straightMidpoint, point2, point2>>
    ELSE
        LET c1 == IF control1 = null THEN point1 ELSE control1
            c2 == IF control2 = null THEN point1 ELSE control2
            m1 == midpoint(point1, c1)
            m2 == midpoint(c1, c2)
            m3 == midpoint(c2, point2)
            q1 == midpoint(m1, m2)
            q2 == midpoint(m2, m3)
            o == midpoint(q1, q2)
        IN  <<point1, m1, q1, o, q2, m3, point2>>

\* a missing control point is put on the far end point
halveCubicBezierMutNull(point1, control1, control2, point2) ==
    IF control1 = null /\ control2 = null
    THEN LET straightMidpoint == midpoint(point1, point2)
         IN  <<point1, point1, straightMidpoint, straightMidpoint, straightMidpoint, point2, point2>>
    ELSE
        LET c1 == IF control1 = null THEN point2 ELSE control1
            c2 == IF control2 = null THEN point1 ELSE control2
            m1 == midpoint(point1, c1)
            m2 == midpoint(c1, c2)
            m3 == midpoint(c2, point2)
            q1 == midpoint(m1, m2)
            q2 == midpoint(m2, m3)
            o == midpoint(q1, q2)
        IN  <<point1, m1, q1, o, q2, m3, point2>>

halveCubicBezier(point1, control1, control2, point2) ==
    IF control1 = null /\ control2 = null
    THEN LET straightMidpoint == midpoint(point1, point2)
         IN  <<point1, point1, straightMidpoint, straightMidpoint, straightMidpoint, point2, point2>>
    ELSE
        LET c1 == IF control1 = null THEN point1 ELSE control1
            c2 == IF control2 = null THEN point2 ELSE control2
            m1 == midpoint(point1, c1)
            m2 == midpoint(c1, c2)
            m3 == midpoint(c2, point2)
            q1 == midpoint(m1, m2)
            q2 == midpoint(m2, m3)
            o == midpoint(q1, q2)
        IN  <<point1, m1, q1, o, q2, m3, point2>>

Segment(s, c1, c2, e) == [start |-> s, control1 |-> c1, control2 |-> c2, end |-> e]

\* the two halves of a segment, each a segment again
Halves(seg) ==
    LET h == halveCubicBezier(seg.start, seg.control1, seg.control2, seg.end)
    IN  <<Segment(h[1], h[2], h[3], h[4]), Segment(h[4], h[5], h[6], h[7])>>

RECURSIVE HalveEach(_)
HalveEach(segs) ==
    IF segs = <<>> THEN <<>> ELSE Halves(Head(segs)) \o HalveEach(Tail(segs))

BInit ==
    /\ curve \in {Segment(s, c1, c2, e) :
                    s \in Points, c1 \in Points \cup {null},
                    c2 \in Points \cup {null}, e \in Points}
    /\ halved = <<>>
    /\ segments = <<curve>>
    /\ depth = 0
    /\ GUnused
    /\ RUnused
    /\ NUnused

\* halveCubicBezier on every segment held; the first call is the one on curve
HalveSegments ==
    /\ depth < Levels
    /\ halved' = IF depth = 0
                 THEN halveCubicBezier(curve.start, curve.control1, curve.control2, curve.end)
                 ELSE halved
    /\ segments' = HalveEach(segments)
    /\ depth' = depth + 1
    /\ UNCHANGED <<curve, gvars, rvars, nvars>>

BNext == HalveSegments

SpecBezier == BInit /\ [][BNext]_vars

-----------------------------------------------------------------------------
(* Gradients *)

emergencyColor == <<"p", "i", "n", "k">>

\* what a caller sees when a property of undefined is read
TypeError == <<"T", "y", "p", "e", "E", "r", "r", "o", "r">>

Black == <<"#", "0", "0", "0", "0", "0", "0">>
White == <<"#", "f", "f", "f", "f", "f", "f">>
Red   == <<"#", "f", "f", "0", "0", "0", "0">>
Green == <<"#", "0", "0", "f", "f", "0", "0">>
Brown == <<"#", "8", "0", "4", "0", "2", "1">>

\* the (strokeColor, fillColor) pairs a stop may carry
StopColors == {<<Black, White>>, <<White, Brown>>, <<Red, Green>>, <<Green, Red>>}

Positions == {0, 50, 100}

Values == {Num(v) : v \in {-25, 0, 25, 50, 75, 100, 125}} \cup {NaN}

MaxStops == 3

GradientTypes == {"linear", "steps", "radial"}

ColorTypes == {"strokeColor", "fillColor"}

GradientStop(p, c) == [position |-> p, strokeColor |-> c[1], fillColor |-> c[2]]

IsSorted(stops) == \A i \in 1..(Len(stops) - 1) : stops[i].position <= stops[i + 1].position

StopLists ==
    UNION {
        {s \in [1..n -> {GradientStop(p, c) : p \in Positions, c \in StopColors}] : IsSorted(s)}
        : n \in 0..MaxStops}

Min(S) == CHOOSE m \in S : \A k \in S : m <= k

\* lerp returns a rational: numerator over a positive denominator
LerpClampMut(v, sourceMin, sourceMax) == sourceMax

LerpClamp(v, sourceMin, sourceMax) ==
    IF v < sourceMin THEN sourceMin ELSE IF v > sourceMax THEN sourceMax ELSE v

lerp(v, sourceMin, sourceMax, targetMin, targetMax) ==
    IF targetMin = targetMax
    THEN [n |-> targetMin, d |-> 1]
    ELSE LET c == LerpClamp(v, sourceMin, sourceMax)
         IN  [n |-> targetMin * (sourceMax - sourceMin) + (c - sourceMin) * (targetMax - targetMin),
              d |-> sourceMax - sourceMin]

FloorMut(q) == (q.n + q.d - 1) \div q.d

\* Math.floor of a rational with a positive denominator
Floor(q) == q.n \div q.d

RgbString(r, g, b) ==
    <<"r", "g", "b", "(">> \o Dec(r) \o <<",", " ">> \o Dec(g) \o <<",", " ">> \o Dec(b) \o <<")">>

\* value < stops[0].position
BelowRange(stops, v) == JsLt(v, Num(stops[1].position))

AboveRangeMut(stops, v) == ~IsNaN(v) /\ v.num > stops[Len(stops)].position

\* value >= lastStop.position
AboveRange(stops, v) == JsGe(v, Num(stops[Len(stops)].position))

BracketingMut(stops, v) ==
    {i \in 1..(Len(stops) - 1) :
        ~IsNaN(v) /\ v.num > stops[i].position /\ JsLt(v, Num(stops[i + 1].position))}

\* the loop does not compare the value with the position of the next stop
BracketingWideMut(stops, v) ==
    {i \in 1..(Len(stops) - 1) :
        JsGe(v, Num(stops[i].position)) /\ stops[i].position < stops[i + 1].position}

\* the indices i the loop of linearColorForValue and stepColorForValue accepts;
\* the loop stops at the smallest
Bracketing(stops, v) ==
    {i \in 1..(Len(stops) - 1) :
        JsGe(v, Num(stops[i].position)) /\ JsLt(v, Num(stops[i + 1].position))}

linearColorForValue(stops, ct, v) ==
    IF Len(stops) = 0 THEN emergencyColor
    ELSE IF BelowRange(stops, v) THEN stops[1][ct]
    ELSE IF AboveRange(stops, v) THEN stops[Len(stops)][ct]
    ELSE IF Bracketing(stops, v) = {} THEN emergencyColor
    ELSE
        LET i == Min(Bracketing(stops, v))
            posFrom == stops[i].position
            posTo == stops[i + 1].position
            ch(k) == lerp(v.num, posFrom, posTo,
                          ParseChannel(stops[i][ct], k), ParseChannel(stops[i + 1][ct], k))
        IN  RgbString(Floor(ch(1)), Floor(ch(3)), Floor(ch(5)))

\* the arguments of the calls of lerp that linearColorForValue makes, for
\* the red, the green and the blue channel, or none
LerpCalls(stops, ct, v) ==
    IF Len(stops) = 0 THEN <<>>
    ELSE IF BelowRange(stops, v) THEN <<>>
    ELSE IF AboveRange(stops, v) THEN <<>>
    ELSE IF Bracketing(stops, v) = {} THEN <<>>
    ELSE
        LET i == Min(Bracketing(stops, v))
            call(k) == [value |-> v.num,
                        sourceMin |-> stops[i].position,
                        sourceMax |-> stops[i + 1].position,
                        targetMin |-> ParseChannel(stops[i][ct], k),
                        targetMax |-> ParseChannel(stops[i + 1][ct], k)]
        IN  <<call(1), call(3), call(5)>>

stepColorForValueMut(stops, ct, v) ==
    IF Len(stops) = 0 THEN emergencyColor
    ELSE IF BelowRange(stops, v) THEN stops[1][ct]
    ELSE IF AboveRange(stops, v) THEN stops[Len(stops)][ct]
    ELSE IF Bracketing(stops, v) = {} THEN emergencyColor
    ELSE stops[Min(Bracketing(stops, v)) + 1][ct]

stepColorForValue(stops, ct, v) ==
    IF Len(stops) = 0 THEN emergencyColor
    ELSE IF BelowRange(stops, v) THEN stops[1][ct]
    ELSE IF AboveRange(stops, v) THEN stops[Len(stops)][ct]
    ELSE IF Bracketing(stops, v) = {} THEN emergencyColor
    ELSE stops[Min(Bracketing(stops, v))][ct]

gradientColorForValue(g, ct, v) ==
    IF g.type = "linear" THEN linearColorForValue(g.stops, ct, v)
    ELSE IF g.type = "steps" THEN stepColorForValue(g.stops, ct, v)
    ELSE emergencyColor

GInit ==
    /\ gradient \in [type : GradientTypes, stops : StopLists]
    /\ colorType = "strokeColor"
    /\ value = NaN
    /\ result = <<>>
    /\ gpc = "idle"
    /\ BUnused
    /\ RUnused
    /\ NUnused

\* one call gradientColorForValue(gradient, ct, v); the function is pure and
\* may be called again
GradientColorForValue ==
    /\ \E ct \in ColorTypes, v \in Values :
        /\ colorType' = ct
        /\ value' = v
        /\ result' = gradientColorForValue(gradient, ct, v)
    /\ gpc' = "returned"
    /\ UNCHANGED <<gradient, bvars, rvars, nvars>>

GNext == GradientColorForValue

SpecGradient == GInit /\ [][GNext]_vars

-----------------------------------------------------------------------------
(* JavaScript objects and optional values *)

undefined == [undefined |-> TRUE]

\* an optional string: absent (null or undefined), or present
none == <<>>

Some(s) == <<s>>

\* the properties every object literal inherits from Object.prototype
ObjectPrototypeKeys ==
    {"constructor", "toString", "toLocaleString", "valueOf", "hasOwnProperty",
     "isPrototypeOf", "propertyIsEnumerable", "__proto__"}

\* the function or object found under an inherited property
Inherited(key) == [inherited |-> key]

IsInherited(v) == "inherited" \in DOMAIN v

EmptyObject == [k \in {} |-> undefined]

\* own[key] for an object literal {} used as a map: an own property, else
\* the property of that name of Object.prototype, else undefined
ObjGet(own, key) ==
    IF key \in DOMAIN own THEN own[key]
    ELSE IF key \in ObjectPrototypeKeys THEN Inherited(key)
    ELSE undefined

\* own[key] = v
ObjSet(own, key, v) == [k \in DOMAIN own \cup {key} |-> IF k = key THEN v ELSE own[k]]

\* !v for a value that is an object or undefined
Falsy(v) == v = undefined \/ v = null

\* +obj.field for a node: a property the object lacks is undefined, and
\* +undefined is NaN
FieldNumber(obj, field) ==
    IF field \in DOMAIN obj THEN Num(obj[field] * Unit) ELSE NaN

\* n.toFixed(2) and `${n}` for a whole number n >= 0
ToFixed2(a) == IF IsNaN(a) THEN <<"N", "a", "N">> ELSE Dec(a.num) \o <<".", "0", "0">>

NumberString(a) == IF IsNaN(a) THEN <<"N", "a", "N">> ELSE Dec(a.num)

-----------------------------------------------------------------------------
(* The renderer: configuration *)

MaxEdges == 2

Node(l, px, py, w, h, m, lp) ==
    [label |-> l, x |-> px, y |-> py, width |-> w, height |-> h, metricName |-> m, linkParams |-> lp]

NodeA == Node("A", 0, 0, 50, 20, Some("cpu"), none)

NodeB == Node("B", 100, 0, 50, 20, none, Some("var-b"))

\* a second node of the label A
NodeA2 == Node("A", 200, 0, 50, 20, Some("absent"), none)

NodeLists ==
    { <<NodeA, NodeB>>, <<NodeA, NodeB, NodeA2>>, <<NodeA2, NodeB, NodeA>> }

Edge(n1, n2, bd, bm, m, m2, st) ==
    [node1 |-> n1, node2 |-> n2, bendDirection |-> bd, bendMagnitude |-> bm,
     metricName |-> m, metric2Name |-> m2, styleName |-> st, linkParams |-> none]

EdgePool ==
    { Edge("A", "B", 90, 0, Some("cpu"), none, none),
      Edge("A", "B", 0, 20, Some("cpu"), Some("mem"), Some("triple")),
      Edge("B", "A", 90, 20, none, none, Some("double")),
      Edge("A", "B", -90, 20, Some("absent"), Some("cpu"), Some("dash")),
      Edge("A", "X", 0, 0, Some("cpu"), none, none),
      Edge("constructor", "B", 0, 0, Some("cpu"), none, none),
      Edge("B", "B", 450, 20, Some("mem"), none, Some("double")),
      Edge("A", "B", 0, 0, Some("toString"), none, none) }

\* the sequences of at most n elements of S
RECURSIVE SeqsUpTo(_, _)
SeqsUpTo(S, n) ==
    IF n = 0 THEN {<<>>}
    ELSE LET shorter == SeqsUpTo(S, n - 1)
         IN  shorter \cup {Append(s, e) : s \in {q \in shorter : Len(q) = n - 1},
                                          e \in S}

Style(n, swa, da) == [name |-> n, strokeWidthArray |-> swa, dashArray |-> da]

Styles ==
    << Style("double", Some(<<"2", " ", "1">>), none),
       Style("dash", none, Some(<<"6 3">>)),
       Style("triple", Some(<<"3", ",", "1", ",", " ", "3">>), none) >>

StopWithLabel(p, c, show) ==
    [position |-> p, strokeColor |-> c[1], fillColor |-> c[2], showLegendLabel |-> show]

Gradients ==
    { [type |-> "linear",
       stops |-> <<StopWithLabel(100, <<White, Black>>, TRUE),
                   StopWithLabel(0, <<Black, White>>, FALSE)>>],
      [type |-> "linear",
       stops |-> <<StopWithLabel(0, <<Black, White>>, FALSE),
                   StopWithLabel(100, <<White, Black>>, TRUE)>>],
      [type |-> "steps",
       stops |-> <<StopWithLabel(50, <<Green, Red>>, TRUE),
                   StopWithLabel(0, <<Red, Green>>, TRUE),
                   StopWithLabel(80, <<Black, White>>, FALSE)>>] }

ValueMaps ==
    { [m \in {"cpu", "mem"} |-> IF m = "cpu" THEN Num(75) ELSE Num(25)] }

\* no legend, and a horizontal legend with the labels below
Legends ==
    { [type |-> <<>>, x |-> 0, y |-> 0, length |-> 100, width |-> 5],
      [type |-> <<"h", "b">>, x |-> 10, y |-> 100, length |-> 200, width |-> 10] }

\* a steps gradient without a stop
NoStops == [type |-> "steps", stops |-> <<>>]

ConfigsOf(nodeLists, numbers, gradients) ==
    [ id : {7},
      weathermapNodes : nodeLists,
      weathermapEdges : SeqsUpTo(EdgePool, MaxEdges),
      weathermapLabels : {<<[label |-> "Core", x |-> 10, y |-> 90]>>},
      weathermapStyles : {Styles},
      canvasSize : {[width |-> 300, height |-> 120]},
      textOffsets : {[left |-> 5, bottom |-> 5]},
      showNumbers : numbers,
      strokeWidth : {4},
      gradient : gradients,
      legend : Legends,
      noValueDashArray : {<<"4 4">>},
      unmeasuredDashArray : {<<"2 2">>} ]

\* the gradient without a stop comes with the two nodes and without numbers
Configs ==
    ConfigsOf(NodeLists, BOOLEAN, Gradients)
        \cup ConfigsOf({<<NodeA, NodeB>>}, {FALSE}, {NoStops})

-----------------------------------------------------------------------------
(* The renderer: styles and links *)

RECURSIVE StyleRemove(_, _)
StyleRemove(style, key) ==
    IF style = <<>> THEN <<>>
    ELSE IF Head(style)[1] = key THEN StyleRemove(Tail(style), key)
    ELSE <<Head(style)>> \o StyleRemove(Tail(style), key)

\* assembledStyle[key] = v: an existing key keeps its place
StylePut(style, key, v) ==
    IF \E i \in 1..Len(style) : style[i][1] = key
    THEN [i \in 1..Len(style) |-> IF style[i][1] = key THEN <<key, v>> ELSE style[i]]
    ELSE Append(style, <<key, v>>)

\* modifyStyle(element, newValues) on the element's style, both sequences of
\* <<key, value>> with a sequence as the value; the value none, for null,
\* removes the key
RECURSIVE modifyStyle(_, _)
modifyStyle(style, newValues) ==
    IF newValues = <<>> THEN style
    ELSE LET kv == Head(newValues)
         IN  modifyStyle(IF kv[2] = none THEN StyleRemove(style, kv[1])
                         ELSE StylePut(style, kv[1], kv[2]),
                         Tail(newValues))

\* the value of a key of a style, or none
StyleValue(style, key) ==
    IF \E i \in 1..Len(style) : style[i][1] = key
    THEN Some((CHOOSE kv \in {style[i] : i \in 1..Len(style)} : kv[1] = key)[2])
    ELSE none

\* the xlink:href maybeWrapIntoLink gives the a element it wraps the group
\* in, or none when the group is added to the container directly
LinkHref(linkUriBase, objLinkParams) ==
    IF linkUriBase = none THEN none
    ELSE IF objLinkParams = none THEN linkUriBase
    ELSE LET objLinkUri == linkUriBase[1]
         IN  Some(objLinkUri \o <<IF \E i \in 1..Len(objLinkUri) : objLinkUri[i] = "?"
                                   THEN "&" ELSE "?">> \o objLinkParams)

\* the stops in the order of the configuration
SortStopsMut(stops) == stops

\* stops.slice().sort((l, r) => l.position - r.position): a stable sort
RECURSIVE InsertStop(_, _)
InsertStop(sorted, stop) ==
    IF sorted = <<>> THEN <<stop>>
    ELSE IF sorted[Len(sorted)].position <= stop.position THEN Append(sorted, stop)
    ELSE Append(InsertStop(SubSeq(sorted, 1, Len(sorted) - 1), stop), sorted[Len(sorted)])

RECURSIVE SortStops(_)
SortStops(stops) ==
    IF stops = <<>> THEN <<>>
    ELSE InsertStop(SortStops(SubSeq(stops, 1, Len(stops) - 1)), stops[Len(stops)])

RECURSIVE StyleMapOf(_)
StyleMapOf(styles) ==
    IF styles = <<>> THEN EmptyObject
    ELSE ObjSet(StyleMapOf(SubSeq(styles, 1, Len(styles) - 1)),
                styles[Len(styles)].name, styles[Len(styles)])

-----------------------------------------------------------------------------
(* The renderer: renderWeathermapInto up to the placement of the nodes *)

\* what the link resolver returns for the link settings, when there is one
LinkBases == {<<"/d/net", "?", "orgId=1">>}

RInit ==
    /\ config \in Configs
    /\ currentValues \in ValueMaps
    /\ linkResolver \in {none} \cup {Some(base) : base \in LinkBases}
    /\ state = null
    /\ svg = null
    /\ rpc = "start"
    /\ container = <<>>
    /\ GUnused
    /\ BUnused
    /\ NUnused

\* sort is called on the array of the configuration itself
StopsAfterSortMut(stops) == SortStops(stops)

\* config.gradient.stops after the statement that sorts: sort works in
\* place on its receiver, which is the copy slice() made
StopsAfterSort(stops) == stops

\* the state an earlier invocation left behind is used again
WeathermapRendererStateMut(sortedGradient) ==
    IF state # null THEN state
    ELSE [sortedGradient |-> sortedGradient,
          currentValues |-> currentValues,
          nodeLabelToNode |-> EmptyObject,
          styleMap |-> StyleMapOf(config.weathermapStyles),
          nodeLinkUriBase |-> none,
          edgeLinkUriBase |-> none]

\* the constructor of WeathermapRendererState: every invocation makes a new
\* state from its own arguments
WeathermapRendererState(sortedGradient) ==
    [sortedGradient |-> sortedGradient,
     currentValues |-> currentValues,
     nodeLabelToNode |-> EmptyObject,
     styleMap |-> StyleMapOf(config.weathermapStyles),
     nodeLinkUriBase |-> none,
     edgeLinkUriBase |-> none]

\* renderWeathermapInto with addViewBox left at its default: the stops are
\* sorted on a copy, the state is constructed, initializeSVG creates the
\* groups and the links are resolved
RenderStart ==
    /\ rpc = "start"
    /\ state' = [WeathermapRendererState([type |-> config.gradient.type,
                                          stops |-> SortStops(config.gradient.stops)])
                    EXCEPT !.nodeLinkUriBase = linkResolver,
                           !.edgeLinkUriBase = linkResolver]
    /\ svg' = [style |-> modifyStyle(<<>>,
                            << <<"width", Dec(config.canvasSize.width) \o <<"p", "x">> >>,
                               <<"height", Dec(config.canvasSize.height) \o <<"p", "x">> >> >>),
               defs |-> <<>>, legendGroup |-> <<>>, edgeGroup |-> <<>>,
               nodeGroup |-> <<>>, labelGroup |-> <<>>]
    /\ rpc' = "nodes"
    /\ config' = [config EXCEPT !.gradient.stops = StopsAfterSort(@)]
    /\ UNCHANGED <<currentValues, linkResolver, container, gvars, bvars, nvars>>

\* metricName != null && metricName in state.currentValues: the in
\* operator also finds the properties the value map inherits from
\* Object.prototype
HasValue(name) ==
    name # none /\ name[1] \in DOMAIN state.currentValues \cup ObjectPrototypeKeys

\* state.currentValues[metricName]
ValueOf(name) == ObjGet(state.currentValues, name[1])

\* the number a comparison makes of the value: NaN for an inherited function
\* or object
ToNumber(v) == IF IsInherited(v) THEN NaN ELSE v

\* currentValue.toFixed is no function: the call throws a TypeError
ToFixedThrows(name) == HasValue(name) /\ IsInherited(ValueOf(name))

\* the text of a node: its label, with the value when numbers are shown
NodeText(node) ==
    IF config.showNumbers /\ node.metricName # none
    THEN <<node.label, " (">>
         \o (IF HasValue(node.metricName)
             THEN NumberString(state.currentValues[node.metricName[1]]) ELSE <<"?">>)
         \o <<")">>
    ELSE <<node.label>>

\* the group placeNodes builds for one node; the metrics of the nodes of the
\* model are own properties of the value map or no properties at all
NodeGroup(node) ==
    LET rect0 == modifyStyle(<<>>, << <<"stroke", <<"gray">> >>, <<"stroke-width", <<"1px">> >> >>)
        measured == node.metricName # none /\ HasValue(node.metricName)
        rectStyle ==
            IF node.metricName = none
            THEN modifyStyle(rect0, << <<"fill", <<"silver">> >>,
                                       <<"stroke-dasharray", config.unmeasuredDashArray>> >>)
            ELSE IF measured
            THEN modifyStyle(rect0, << <<"fill", gradientColorForValue(state.sortedGradient,
                                          "fillColor", state.currentValues[node.metricName[1]])>> >>)
            ELSE modifyStyle(rect0, << <<"fill", <<"black">> >>,
                                       <<"stroke-dasharray", config.noValueDashArray>> >>)
        textStyle ==
            IF node.metricName # none /\ ~measured
            THEN modifyStyle(<<>>, << <<"fill", <<"white">> >> >>)
            ELSE <<>>
    IN  [href |-> LinkHref(state.nodeLinkUriBase, node.linkParams),
         rect |-> [x |-> node.x, y |-> node.y, width |-> node.width, height |-> node.height,
                   style |-> rectStyle],
         text |-> [x |-> node.x + config.textOffsets.left,
                   y |-> node.y + node.height - config.textOffsets.bottom,
                   textContent |-> NodeText(node),
                   style |-> textStyle],
         title |-> IF measured
                   THEN Some(<<node.label, " (">>
                             \o ToFixed2(state.currentValues[node.metricName[1]]) \o <<")">>)
                   ELSE none]

\* nodeLabelToNode after the first n nodes: a later node replaces an earlier
\* one of the same label
RECURSIVE LabelMapAfter(_, _)
LabelMapAfter(nodes, n) ==
    IF n = 0 THEN EmptyObject
    ELSE ObjSet(LabelMapAfter(nodes, n - 1), nodes[n].label, nodes[n])

placeNodes ==
    /\ rpc = "nodes"
    /\ state' = [state EXCEPT !.nodeLabelToNode =
                    LabelMapAfter(config.weathermapNodes, Len(config.weathermapNodes))]
    /\ svg' = [svg EXCEPT !.nodeGroup =
                    [i \in 1..Len(config.weathermapNodes) |-> NodeGroup(config.weathermapNodes[i])]]
    /\ rpc' = "edges"
    /\ UNCHANGED <<config, currentValues, linkResolver, container, gvars, bvars, nvars>>

-----------------------------------------------------------------------------
(* The renderer: angles and vectors *)

JsMul(a, b) == IF IsNaN(a) \/ IsNaN(b) THEN NaN ELSE Num(a.num * b.num)

JsNeg(a) == IF IsNaN(a) THEN NaN ELSE Num(0 - a.num)

\* Math.PI: angles are counted in units of pi/180
MathPI == 180

deg2rad(angleDegrees) == Num((angleDegrees * MathPI) \div 180)

\* Math.atan2(y, x) of the difference of two points on one horizontal or
\* vertical line; equal coordinates subtract to +0
atan2(y, x) ==
    CASE IsNaN(y) \/ IsNaN(x) -> NaN
      [] y.num = 0 /\ x.num >= 0 -> Num(0)
      [] y.num = 0 /\ x.num < 0 -> Num(MathPI)
      [] y.num > 0 /\ x.num = 0 -> Num(MathPI \div 2)
      [] y.num < 0 /\ x.num = 0 -> Num(0 - (MathPI \div 2))

RECURSIVE NormalizeUp(_)
NormalizeUp(a) == IF a <= 0 - MathPI THEN NormalizeUp(a + 2 * MathPI) ELSE a

RECURSIVE NormalizeDown(_)
NormalizeDown(a) == IF a > MathPI THEN NormalizeDown(a - 2 * MathPI) ELSE a

\* with NaN neither loop is entered
normalizeAngle(angleRadians) ==
    IF IsNaN(angleRadians) THEN NaN
    ELSE Num(NormalizeDown(NormalizeUp(angleRadians.num)))

\* Math.cos and Math.sin at 0 and at the right angles: the 6e-17 a double
\* has for the cosine of pi/2 vanishes when the offset is added to a
\* coordinate
Cos(a) ==
    CASE IsNaN(a) -> NaN
      [] a.num = 0 -> Num(1)
      [] a.num = MathPI \div 2 -> Num(0)
      [] a.num = 0 - (MathPI \div 2) -> Num(0)

Sin(a) ==
    CASE IsNaN(a) -> NaN
      [] a.num = 0 -> Num(0)
      [] a.num = MathPI \div 2 -> Num(1)
      [] a.num = 0 - (MathPI \div 2) -> Num(0 - 1)

polarToCartesian(angleRadians, length) ==
    [x |-> JsMul(length, Cos(angleRadians)), y |-> JsMul(length, Sin(angleRadians))]

Sign(n) == IF n > 0 THEN 1 ELSE IF n < 0 THEN 0 - 1 ELSE 0

\* the unit vector of a horizontal or vertical vector; the zero vector has
\* norm 0 and 0/0 is NaN
unitVector(vector) ==
    CASE IsNaN(vector.x) \/ IsNaN(vector.y) -> [x |-> NaN, y |-> NaN]
      [] vector.x.num = 0 /\ vector.y.num = 0 -> [x |-> NaN, y |-> NaN]
      [] vector.x.num = 0 /\ vector.y.num # 0 -> [x |-> Num(0), y |-> Num(Sign(vector.y.num))]
      [] vector.x.num # 0 /\ vector.y.num = 0 -> [x |-> Num(Sign(vector.x.num)), y |-> Num(0)]

-----------------------------------------------------------------------------
(* normalizeAngle, one iteration of a loop at a time *)

\* the doubles 1e17 and -1e17: their neighbours among the doubles are 16
\* away, so adding 2 pi to them or subtracting it from them rounds back to
\* the number itself
Huge(sign) == [huge |-> sign]

IsHuge(a) == a \in {Huge(1), Huge(0 - 1)}

\* the angles handed to normalizeAngle reach from -MaxAngle to MaxAngle
MaxAngle == 720

Angles == {Num(a) : a \in (0 - MaxAngle)..MaxAngle} \cup {Huge(1), Huge(0 - 1)}

\* angleRadians <= -Math.PI
AtMostMinusPi(a) == IF IsHuge(a) THEN a.huge < 0 ELSE a.num <= 0 - MathPI

\* angleRadians > Math.PI
MoreThanPi(a) == IF IsHuge(a) THEN a.huge > 0 ELSE a.num > MathPI

\* angleRadians += 2 * Math.PI
PlusTwoPi(a) == IF IsHuge(a) THEN a ELSE Num(a.num + 2 * MathPI)

\* angleRadians -= 2 * Math.PI
MinusTwoPi(a) == IF IsHuge(a) THEN a ELSE Num(a.num - 2 * MathPI)

NInit ==
    /\ angleInput \in Angles
    /\ runningAngle = angleInput
    /\ npc = "first loop"
    /\ GUnused
    /\ BUnused
    /\ RUnused

\* an iteration of the first loop
IncreaseAngle ==
    /\ npc = "first loop"
    /\ AtMostMinusPi(runningAngle)
    /\ runningAngle' = PlusTwoPi(runningAngle)
    /\ UNCHANGED <<angleInput, npc, gvars, bvars, rvars>>

LeaveFirstLoop ==
    /\ npc = "first loop"
    /\ ~AtMostMinusPi(runningAngle)
    /\ npc' = "second loop"
    /\ UNCHANGED <<angleInput, runningAngle, gvars, bvars, rvars>>

\* an iteration of the second loop
DecreaseAngle ==
    /\ npc = "second loop"
    /\ MoreThanPi(runningAngle)
    /\ runningAngle' = MinusTwoPi(runningAngle)
    /\ UNCHANGED <<angleInput, npc, gvars, bvars, rvars>>

ReturnAngle ==
    /\ npc = "second loop"
    /\ ~MoreThanPi(runningAngle)
    /\ npc' = "returned"
    /\ UNCHANGED <<angleInput, runningAngle, gvars, bvars, rvars>>

NNext == IncreaseAngle \/ LeaveFirstLoop \/ DecreaseAngle \/ ReturnAngle

\* the code runs on for as long as it has a step to take
SpecNormalize == NInit /\ [][NNext]_vars /\ WF_vars(NNext)

-----------------------------------------------------------------------------
(* The renderer: stroke width patterns *)

IsDigit(c) == \E i \in 1..10 : Digit[i] = c

RECURSIVE DecVal(_)
DecVal(s) ==
    IF s = <<>> THEN 0
    ELSE 10 * DecVal(SubSeq(s, 1, Len(s) - 1)) + HexVal(s[Len(s)])

\* split(/[ ,]+/): a run of separators ends one piece and starts the next
RECURSIVE Split(_, _, _)
Split(s, piece, inSeparator) ==
    IF s = <<>> THEN <<piece>>
    ELSE IF Head(s) \in {" ", ","}
    THEN IF inSeparator THEN Split(Tail(s), piece, TRUE)
         ELSE <<piece>> \o Split(Tail(s), <<>>, TRUE)
    ELSE Split(Tail(s), Append(piece, Head(s)), FALSE)

\* Number.parseFloat of a piece: a whole number, or NaN for a piece that
\* starts with no part of a number
parseFloat(p) ==
    CASE p = <<>> -> NaN
      [] p # <<>> /\ (\A i \in 1..Len(p) : IsDigit(p[i])) -> Num(DecVal(p) * Unit)
      [] p # <<>> /\ ~IsDigit(p[1]) /\ p[1] \notin {"+", "-", "."} -> NaN

getWeathermapStyle(styleName) ==
    IF styleName = none THEN null
    ELSE LET style == ObjGet(state.styleMap, styleName[1])
         IN  IF Falsy(style) THEN null ELSE style

\* the style of the element after modifyApplyingWeathermapStyle: the width
\* pattern of the style is handled by makeAndPlaceEdge
modifyApplyingWeathermapStyle(elementStyle, style) ==
    IF style = null THEN elementStyle
    ELSE modifyStyle(elementStyle,
                     IF /\ "dashArray" \in DOMAIN style
                        /\ style.dashArray # none
                        /\ style.dashArray[1] # <<>>
                     THEN << <<"stroke-dasharray", style.dashArray[1]>> >>
                     ELSE <<>>)

\* edgeStyle && edgeStyle.strokeWidthArray
HasStrokeWidthArray(edgeStyle) ==
    /\ edgeStyle # null
    /\ "strokeWidthArray" \in DOMAIN edgeStyle
    /\ edgeStyle.strokeWidthArray # none
    /\ edgeStyle.strokeWidthArray[1] # <<>>

\* the pattern is used as it was parsed
StrokeWidthsMut(edgeStyle) ==
    IF HasStrokeWidthArray(edgeStyle)
    THEN LET pieces == Split(edgeStyle.strokeWidthArray[1], <<>>, FALSE)
         IN  [i \in 1..Len(pieces) |-> parseFloat(pieces[i])]
    ELSE <<Num(config.strokeWidth * Unit)>>

\* the width pattern of makeAndPlaceEdge: parsed, and appended to itself
\* when its length is even
StrokeWidths(edgeStyle) ==
    LET parsed ==
            IF HasStrokeWidthArray(edgeStyle)
            THEN LET pieces == Split(edgeStyle.strokeWidthArray[1], <<>>, FALSE)
                 IN  [i \in 1..Len(pieces) |-> parseFloat(pieces[i])]
            ELSE <<Num(config.strokeWidth * Unit)>>
    IN  IF Len(parsed) % 2 # 1 THEN parsed \o parsed ELSE parsed

\* the gaps are left out of the sum
RECURSIVE SumToMut(_, _)
SumToMut(widths, n) ==
    IF n = 0 THEN Num(0)
    ELSE IF n % 2 = 1 THEN JsAdd(SumToMut(widths, n - 1), widths[n])
    ELSE SumToMut(widths, n - 1)

\* strokeWidths.reduce((acc, cur) => acc + cur, 0) over the first n entries
RECURSIVE SumTo(_, _)
SumTo(widths, n) == IF n = 0 THEN Num(0) ELSE JsAdd(SumTo(widths, n - 1), widths[n])

-----------------------------------------------------------------------------
(* The renderer: edges and labels *)

PlusPoint(point, xOffset, yOffset) ==
    IF point = null THEN null
    ELSE [x |-> JsAdd(point.x, xOffset), y |-> JsAdd(point.y, yOffset)]

\* the control points stay where those of the segment are
StrokePathMut(start, control1, control2, end, strokeWidths, offsetUnitVector, i) ==
    LET totalStrokeWidth == SumTo(strokeWidths, Len(strokeWidths))
        currentOffset == JsAdd(JsHalf(JsNeg(totalStrokeWidth)), SumTo(strokeWidths, i - 1))
        strokeWidth == strokeWidths[i]
        along == JsAdd(currentOffset, JsHalf(strokeWidth))
        xOffset == JsMul(offsetUnitVector.x, along)
        yOffset == JsMul(offsetUnitVector.y, along)
        strokeStart == PlusPoint(start, xOffset, yOffset)
        strokeEnd == PlusPoint(end, xOffset, yOffset)
    IN  [d |-> IF control1 = null \/ control2 = null
               THEN [cmd |-> "L", start |-> strokeStart, end |-> strokeEnd]
               ELSE [cmd |-> "C", start |-> strokeStart, control1 |-> control1,
                     control2 |-> control2, end |-> strokeEnd],
         style |-> modifyStyle(<<>>, << <<"stroke-width", <<strokeWidth>> >> >>)]

\* the path of the entry i of the width pattern, i odd
StrokePath(start, control1, control2, end, strokeWidths, offsetUnitVector, i) ==
    LET totalStrokeWidth == SumTo(strokeWidths, Len(strokeWidths))
        currentOffset == JsAdd(JsHalf(JsNeg(totalStrokeWidth)), SumTo(strokeWidths, i - 1))
        strokeWidth == strokeWidths[i]
        along == JsAdd(currentOffset, JsHalf(strokeWidth))
        xOffset == JsMul(offsetUnitVector.x, along)
        yOffset == JsMul(offsetUnitVector.y, along)
        strokeStart == PlusPoint(start, xOffset, yOffset)
        strokeControl1 == PlusPoint(control1, xOffset, yOffset)
        strokeControl2 == PlusPoint(control2, xOffset, yOffset)
        strokeEnd == PlusPoint(end, xOffset, yOffset)
    IN  [d |-> IF strokeControl1 = null \/ strokeControl2 = null
               THEN [cmd |-> "L", start |-> strokeStart, end |-> strokeEnd]
               ELSE [cmd |-> "C", start |-> strokeStart, control1 |-> strokeControl1,
                     control2 |-> strokeControl2, end |-> strokeEnd],
         style |-> modifyStyle(<<>>, << <<"stroke-width", <<strokeWidth>> >> >>)]

\* what makeAndPlaceEdge appends to the group of the edge: the group of the
\* strokes and, when numbers are shown, the text at the middle of the curve;
\* when toFixed throws, the styled group with an empty title and no path
makeAndPlaceEdge(start, control1, control2, end, metricName, edgeStyleName, title) ==
    LET edgeStyle == getWeathermapStyle(edgeStyleName)
        strokeWidths == StrokeWidths(edgeStyle)
        offsetUnitVector ==
            IF Len(strokeWidths) > 1
            THEN LET direction == [x |-> JsSub(start.x, end.x), y |-> JsSub(start.y, end.y)]
                     offsetVector == [x |-> direction.y, y |-> JsNeg(direction.x)]
                 IN  unitVector(offsetVector)
            ELSE [x |-> Num(0), y |-> Num(0)]
        measured == HasValue(metricName)
        style0 == modifyStyle(<<>>, << <<"fill", <<"none">> >> >>)
        groupStyle ==
            IF measured
            THEN modifyApplyingWeathermapStyle(
                     modifyStyle(style0,
                        << <<"stroke", gradientColorForValue(state.sortedGradient, "strokeColor",
                                           ToNumber(ValueOf(metricName)))>> >>),
                     edgeStyle)
            ELSE modifyStyle(style0, << <<"stroke", <<"black">> >>,
                                        <<"stroke-dasharray", config.noValueDashArray>> >>)
        threw == ToFixedThrows(metricName)
        multistrokeGroup ==
            [style |-> groupStyle,
             title |-> IF measured
                       THEN title \o <<" (">> \o ToFixed2(ValueOf(metricName)) \o <<")">>
                       ELSE title,
             paths |-> [k \in 1..((Len(strokeWidths) + 1) \div 2) |->
                            StrokePath(start, control1, control2, end, strokeWidths,
                                       offsetUnitVector, 2 * k - 1)]]
        text ==
            LET middle == halveCubicBezier(start, control1, control2, end)[4]
            IN  [x |-> middle.x, y |-> middle.y,
                 textContent |-> IF measured THEN ToFixed2(ValueOf(metricName))
                                 ELSE <<"?">>]
    IN  IF threw
        THEN <<[style |-> groupStyle, title |-> <<>>, paths |-> <<>>]>>
        ELSE IF config.showNumbers THEN <<multistrokeGroup, text>> ELSE <<multistrokeGroup>>

\* the far corner of the rectangle in place of its centre
CenterMut(node) ==
    [x |-> JsAdd(FieldNumber(node, "x"), FieldNumber(node, "width")),
     y |-> JsAdd(FieldNumber(node, "y"), FieldNumber(node, "height"))]

Center(node) ==
    [x |-> JsAdd(FieldNumber(node, "x"), JsHalf(FieldNumber(node, "width"))),
     y |-> JsAdd(FieldNumber(node, "y"), JsHalf(FieldNumber(node, "height")))]

\* the control point the bend puts next to a centre; the y axis of the
\* screen points down
BendControl(center, angle, bendAngle, edge) ==
    LET offset == polarToCartesian(normalizeAngle(JsAdd(angle, bendAngle)),
                                   Num(edge.bendMagnitude * Unit))
    IN  [x |-> JsAdd(center.x, offset.x), y |-> JsSub(center.y, offset.y)]

\* the halves of a straight edge are handed on without control points
EdgeSegmentsLineMut(edge, n1Center, control1, control2, n2Center) ==
    LET halves == halveCubicBezier(n1Center, control1, control2, n2Center)
        straight == control1 = null /\ control2 = null
    IN  IF edge.metric2Name # none
        THEN makeAndPlaceEdge(n1Center, IF straight THEN null ELSE halves[2],
                              IF straight THEN null ELSE halves[3], halves[4],
                              edge.metricName, edge.styleName,
                              <<edge.node1, " -> ", edge.node2>>)
             \o (IF ToFixedThrows(edge.metricName) THEN <<>>
                 ELSE makeAndPlaceEdge(halves[4], IF straight THEN null ELSE halves[5],
                                       IF straight THEN null ELSE halves[6], n2Center,
                                       edge.metric2Name, edge.styleName,
                                       <<edge.node2, " -> ", edge.node1>>))
        ELSE makeAndPlaceEdge(n1Center, control1, control2, n2Center,
                              edge.metricName, edge.styleName,
                              <<edge.node1, " <-> ", edge.node2>>)

\* the halves carry each other's metric
EdgeSegmentsMut(edge, n1Center, control1, control2, n2Center) ==
    LET halves == halveCubicBezier(n1Center, control1, control2, n2Center)
    IN  IF edge.metric2Name # none
        THEN makeAndPlaceEdge(n1Center, halves[2], halves[3], halves[4],
                              edge.metric2Name, edge.styleName,
                              <<edge.node1, " -> ", edge.node2>>)
             \o (IF ToFixedThrows(edge.metric2Name) THEN <<>>
                 ELSE makeAndPlaceEdge(halves[4], halves[5], halves[6], n2Center,
                                       edge.metricName, edge.styleName,
                                       <<edge.node2, " -> ", edge.node1>>))
        ELSE makeAndPlaceEdge(n1Center, control1, control2, n2Center,
                              edge.metricName, edge.styleName,
                              <<edge.node1, " <-> ", edge.node2>>)

\* the one segment of an edge, or the two halves of an edge of two metrics;
\* " -> " and " <-> " stand for the arrows U+2192 and U+2194 with the spaces
\* around them
EdgeSegments(edge, n1Center, control1, control2, n2Center) ==
    LET halves == halveCubicBezier(n1Center, control1, control2, n2Center)
    IN  IF edge.metric2Name # none
        THEN makeAndPlaceEdge(n1Center, halves[2], halves[3], halves[4],
                              edge.metricName, edge.styleName,
                              <<edge.node1, " -> ", edge.node2>>)
             \o (IF ToFixedThrows(edge.metricName) THEN <<>>
                 ELSE makeAndPlaceEdge(halves[4], halves[5], halves[6], n2Center,
                                       edge.metric2Name, edge.styleName,
                                       <<edge.node2, " -> ", edge.node1>>))
        ELSE makeAndPlaceEdge(n1Center, control1, control2, n2Center,
                              edge.metricName, edge.styleName,
                              <<edge.node1, " <-> ", edge.node2>>)

\* whether placeEdges skips the edge: a label that resolves to nothing
Skipped(edge) ==
    \/ Falsy(ObjGet(state.nodeLabelToNode, edge.node1))
    \/ Falsy(ObjGet(state.nodeLabelToNode, edge.node2))

\* the group placeEdges builds for the edge i of the configuration; of is
\* the place of the edge in the configuration
EdgeGroup(i) ==
    LET edge == config.weathermapEdges[i]
        node1 == ObjGet(state.nodeLabelToNode, edge.node1)
        node2 == ObjGet(state.nodeLabelToNode, edge.node2)
        n1Center == Center(node1)
        n2Center == Center(node2)
        bent == edge.bendDirection # 0 /\ edge.bendMagnitude # 0
        n1N2Angle == atan2(JsSub(n1Center.y, n2Center.y), JsSub(n2Center.x, n1Center.x))
        n2N1Angle == atan2(JsSub(n2Center.y, n1Center.y), JsSub(n1Center.x, n2Center.x))
        control1 == IF bent
                    THEN BendControl(n1Center, n1N2Angle, deg2rad(edge.bendDirection), edge)
                    ELSE null
        control2 == IF bent
                    THEN BendControl(n2Center, n2N1Angle, JsNeg(deg2rad(edge.bendDirection)), edge)
                    ELSE null
    IN  [of |-> i,
         href |-> LinkHref(state.edgeLinkUriBase, edge.linkParams),
         children |-> EdgeSegments(edge, n1Center, control1, control2, n2Center)]

\* makeAndPlaceEdge throws for a segment of the edge
EdgeThrows(edge) ==
    /\ ~Skipped(edge)
    /\ \/ ToFixedThrows(edge.metricName)
       \/ edge.metric2Name # none /\ ToFixedThrows(edge.metric2Name)

\* some edge before the edge n has thrown
ThrownBefore(n) == \E m \in 1..(n - 1) : EdgeThrows(config.weathermapEdges[m])

RECURSIVE EdgeGroupsUpTo(_)
EdgeGroupsUpTo(n) ==
    IF n = 0 THEN <<>>
    ELSE IF Skipped(config.weathermapEdges[n]) \/ ThrownBefore(n) THEN EdgeGroupsUpTo(n - 1)
    ELSE Append(EdgeGroupsUpTo(n - 1), EdgeGroup(n))

\* the edges in the order of the configuration, up to the first whose
\* placement throws
placeEdges ==
    /\ rpc = "edges"
    /\ svg' = [svg EXCEPT !.edgeGroup = EdgeGroupsUpTo(Len(config.weathermapEdges))]
    /\ rpc' = IF ThrownBefore(Len(config.weathermapEdges) + 1)
              THEN "threwInEdges" ELSE "labels"
    /\ UNCHANGED <<config, currentValues, linkResolver, state, container, gvars, bvars, nvars>>

placeLabels ==
    /\ rpc = "labels"
    /\ svg' = [svg EXCEPT !.labelGroup =
                    [i \in 1..Len(config.weathermapLabels) |->
                        [x |-> config.weathermapLabels[i].x,
                         y |-> config.weathermapLabels[i].y,
                         textContent |-> config.weathermapLabels[i].label]]]
    /\ rpc' = "legend"
    /\ UNCHANGED <<config, currentValues, linkResolver, state, container, gvars, bvars, nvars>>

-----------------------------------------------------------------------------
(* The renderer: the legend *)

legendLength == 100

legendWidth == 5

\* a / b where the quotient is a whole number
Quotient(a, b) == CASE a % b = 0 -> a \div b

\* the transform of a legend ramp; a ratio is kept as numerator and
\* denominator
LegendTransform(settings, previous, dxH, dyH, dxV) ==
    LET scale == <<[n |-> settings.length, d |-> legendLength],
                   [n |-> settings.width, d |-> legendWidth]>>
    IN  IF settings.type[1] = "h"
        THEN [translate |-> <<settings.x + dxH, settings.y + dyH>>, rotate |-> none,
              scale |-> scale]
        ELSE IF settings.type[1] = "v"
        THEN [translate |-> <<settings.x + dxV, settings.y + settings.length>>,
              rotate |-> Some(0 - 90), scale |-> scale]
        ELSE previous

LegendRect(px, w, fill) ==
    [x |-> px, y |-> 0, width |-> w, height |-> legendWidth, style |-> << <<"fill", fill>> >>]

\* the rectangle after the last stop is left out
drawLegendMut(g, ct, weathermapID) ==
    LET legendGradientName == <<"WeathermapLegendGradient-", ct, "-">> \o weathermapID
        n == Len(g.stops)
    IN  IF g.type = "linear"
        THEN [defs |-> <<[id |-> legendGradientName,
                          stops |-> [i \in 1..n |->
                                        [offset |-> Dec(g.stops[i].position) \o <<"%">>,
                                         stopColor |-> g.stops[i][ct]]]]>>,
              children |-> <<LegendRect(0, legendLength,
                                        <<"url(#">> \o legendGradientName \o <<")">>)>>,
              threw |-> FALSE]
        ELSE [defs |-> <<>>,
              children |->
                   [i \in 1..(n - 1) |->
                       LegendRect(g.stops[i].position,
                                  g.stops[i + 1].position - g.stops[i].position,
                                  g.stops[i][ct])],
              threw |-> FALSE]

\* without a stop the steps branch draws nothing
drawLegendNoStopsMut(g, ct, weathermapID) ==
    LET legendGradientName == <<"WeathermapLegendGradient-", ct, "-">> \o weathermapID
        n == Len(g.stops)
    IN  IF g.type = "linear"
        THEN [defs |-> <<[id |-> legendGradientName,
                          stops |-> [i \in 1..n |->
                                        [offset |-> Dec(g.stops[i].position) \o <<"%">>,
                                         stopColor |-> g.stops[i][ct]]]]>>,
              children |-> <<LegendRect(0, legendLength,
                                        <<"url(#">> \o legendGradientName \o <<")">>)>>,
              threw |-> FALSE]
        ELSE [defs |-> <<>>,
              children |->
                   [i \in 1..n |->
                       IF i < n
                       THEN LegendRect(g.stops[i].position,
                                       g.stops[i + 1].position - g.stops[i].position,
                                       g.stops[i][ct])
                       ELSE LegendRect(g.stops[n].position, 100 - g.stops[n].position,
                                       g.stops[n][ct])],
              threw |-> FALSE]

\* drawLegend: the gradient definitions it adds to defs, the children it
\* adds to the ramp, and whether it throws; with no stop the steps branch
\* appends its last rectangle and then reads the position of undefined
drawLegend(g, ct, weathermapID) ==
    LET legendGradientName == <<"WeathermapLegendGradient-", ct, "-">> \o weathermapID
        n == Len(g.stops)
    IN  IF g.type = "linear"
        THEN [defs |-> <<[id |-> legendGradientName,
                          stops |-> [i \in 1..n |->
                                        [offset |-> Dec(g.stops[i].position) \o <<"%">>,
                                         stopColor |-> g.stops[i][ct]]]]>>,
              children |-> <<LegendRect(0, legendLength,
                                        <<"url(#">> \o legendGradientName \o <<")">>)>>,
              threw |-> FALSE]
        ELSE IF g.type = "steps"
        THEN IF n = 0
             THEN [defs |-> <<>>, children |-> <<[rect |-> "no attributes"]>>, threw |-> TRUE]
             ELSE [defs |-> <<>>,
                   children |->
                        [i \in 1..n |->
                            IF i < n
                            THEN LegendRect(g.stops[i].position,
                                            g.stops[i + 1].position - g.stops[i].position,
                                            g.stops[i][ct])
                            ELSE LegendRect(g.stops[n].position, 100 - g.stops[n].position,
                                            g.stops[n][ct])],
                   threw |-> FALSE]
        ELSE [defs |-> <<>>, children |-> <<>>, threw |-> FALSE]

\* the label placeLabels of the legend makes for a stop
LegendLabel(settings, stop) ==
    LET along == Quotient(stop.position * settings.length, legendLength)
        horizontal == settings.type[1] = "h"
        vertical == settings.type[1] = "v"
    IN  [class |-> Some("legend-label"),
         x |-> settings.x + (IF horizontal THEN along
                             ELSE IF vertical /\ settings.type = <<"v", "r">>
                             THEN 2 * settings.width ELSE 0),
         y |-> settings.y + (IF horizontal
                             THEN (IF settings.type = <<"h", "b">> THEN 2 * settings.width ELSE 0)
                             ELSE IF vertical THEN settings.length - along ELSE 0),
         dy |-> IF horizontal
                THEN (IF settings.type = <<"h", "b">> THEN <<"1", "em">> ELSE <<"0", "em">>)
                ELSE IF vertical THEN <<"0.4", "em">> ELSE <<"0", "em">>,
         style |-> << <<"text-anchor",
                        <<IF horizontal THEN "middle"
                          ELSE IF vertical /\ settings.type = <<"v", "l">> THEN "end"
                          ELSE "start">> >> >>,
         textContent |-> Dec(stop.position)]

LegendLabels(settings, g) ==
    IF settings.type = <<>> \/ settings.type[2] = "n" THEN <<>>
    ELSE LET shown == SelectSeq(g.stops, LAMBDA stop : stop.showLegendLabel)
         IN  [i \in 1..Len(shown) |-> LegendLabel(settings, shown[i])]

\* each ramp gets the class of its own
placeLegendMut ==
    /\ rpc = "legend"
    /\ LET settings == config.legend
           g == state.sortedGradient
           weathermapID == Dec(config.id)
           strokeTransform == LegendTransform(settings, <<>>, 0, 0, 0)
           fillTransform == LegendTransform(settings, strokeTransform, 0, settings.width,
                                            settings.width)
           stroke == drawLegend(g, "strokeColor", weathermapID)
           fill == drawLegend(g, "fillColor", weathermapID)
       IN  IF settings.type = <<>>
           THEN /\ svg' = svg
                /\ rpc' = "done"
           ELSE IF stroke.threw
           THEN /\ svg' = [svg EXCEPT !.defs = stroke.defs,
                                      !.legendGroup =
                                          <<[class |-> Some("stroke-legend"),
                                             transform |-> strokeTransform,
                                             children |-> stroke.children]>>]
                /\ rpc' = "threwInLegend"
           ELSE /\ svg' = [svg EXCEPT !.defs = stroke.defs \o fill.defs,
                                      !.legendGroup =
                                          <<[class |-> Some("stroke-legend"),
                                             transform |-> strokeTransform,
                                             children |-> stroke.children],
                                            [class |-> Some("fill-legend"),
                                             transform |-> fillTransform,
                                             children |-> fill.children]>>
                                          \o LegendLabels(settings, g)]
                /\ rpc' = "done"
    /\ UNCHANGED <<config, currentValues, linkResolver, state, container, gvars, bvars, nvars>>

\* placeLegend on the legend group and defs of the state; the class of the
\* second ramp is set on the first one
placeLegend ==
    /\ rpc = "legend"
    /\ LET settings == config.legend
           g == state.sortedGradient
           weathermapID == Dec(config.id)
           strokeTransform == LegendTransform(settings, <<>>, 0, 0, 0)
           fillTransform == LegendTransform(settings, strokeTransform, 0, settings.width,
                                            settings.width)
           stroke == drawLegend(g, "strokeColor", weathermapID)
           fill == drawLegend(g, "fillColor", weathermapID)
       IN  IF settings.type = <<>>
           THEN /\ svg' = svg
                /\ rpc' = "done"
           ELSE IF stroke.threw
           THEN /\ svg' = [svg EXCEPT !.defs = stroke.defs,
                                      !.legendGroup =
                                          <<[class |-> Some("stroke-legend"),
                                             transform |-> strokeTransform,
                                             children |-> stroke.children]>>]
                /\ rpc' = "threwInLegend"
           ELSE /\ svg' = [svg EXCEPT !.defs = stroke.defs \o fill.defs,
                                      !.legendGroup =
                                          <<[class |-> Some("fill-legend"),
                                             transform |-> strokeTransform,
                                             children |-> stroke.children],
                                            [class |-> none,
                                             transform |-> fillTransform,
                                             children |-> fill.children]>>
                                          \o LegendLabels(settings, g)]
                /\ rpc' = "done"
    /\ UNCHANGED <<config, currentValues, linkResolver, state, container, gvars, bvars, nvars>>

RNext == RenderStart \/ placeNodes \/ placeEdges \/ placeLabels \/ placeLegend

Spec == RInit /\ [][RNext]_vars

-----------------------------------------------------------------------------
(* The renderer: rendering again into the same container *)

\* how often the weathermap is rendered again
MaxRerenders == 2

\* the values of a later invocation: the metric mem may be gone
RerenderValueMaps == ValueMaps \cup { [m \in {"cpu"} |-> Num(25)] }

\* the configurations rendered again have at most one edge
RerenderConfigs == {c \in Configs : Len(c.weathermapEdges) <= 1}

RerenderInit ==
    /\ config \in RerenderConfigs
    /\ currentValues \in RerenderValueMaps
    /\ linkResolver \in {none} \cup {Some(base) : base \in LinkBases}
    /\ state = null
    /\ svg = null
    /\ rpc = "start"
    /\ container = <<>>
    /\ GUnused
    /\ BUnused
    /\ NUnused

\* the caller invokes renderWeathermapInto again with the same configuration
\* and container and with new values: the svg element of the invocation
\* that ended stays in the container, kept here with the values it was
\* rendered from and the way the invocation ended
Rerender ==
    /\ rpc \in {"done", "threwInEdges", "threwInLegend"}
    /\ Len(container) < MaxRerenders
    /\ container' = Append(container, [svg |-> svg, values |-> currentValues, ended |-> rpc])
    /\ currentValues' \in RerenderValueMaps
    /\ rpc' = "start"
    /\ UNCHANGED <<config, linkResolver, state, svg, gvars, bvars, nvars>>

RerenderNext == RNext \/ Rerender

SpecRerender == RerenderInit /\ [][RerenderNext]_vars

-----------------------------------------------------------------------------
(* Claims about the placement of the edges *)

\* placeEdges has returned
EdgesPlaced == rpc \in {"labels", "legend", "done", "threwInLegend"}

\* the label of a configured node
KnownLabel(l) ==
    \E k \in 1..Len(config.weathermapNodes) : config.weathermapNodes[k].label = l

EdgeEmitted(i) == \E j \in 1..Len(svg.edgeGroup) : svg.edgeGroup[j].of = i

\* C10: an edge that references an unknown node label is skipped, nothing
\* is emitted for it, and every other edge of the configuration is placed:
\* after placeEdges the edges with an element are those whose two labels
\* are labels of configured nodes
C10_UnknownLabelSkipped ==
    EdgesPlaced =>
        \A i \in 1..Len(config.weathermapEdges) :
            EdgeEmitted(i) <=> (/\ KnownLabel(config.weathermapEdges[i].node1)
                                /\ KnownLabel(config.weathermapEdges[i].node2))

\* an edge whose node1 is no label of a node has an element all the same,
\* and its only path starts at NaN
C10_Witness ==
    /\ EdgesPlaced
    /\ \E j \in 1..Len(svg.edgeGroup) :
          LET edge == config.weathermapEdges[svg.edgeGroup[j].of]
          IN  /\ ~KnownLabel(edge.node1)
              /\ IsNaN(svg.edgeGroup[j].children[1].paths[1].d.start.x)

\* an edge is skipped when a label is neither the label of a node nor the
\* name of a property of Object.prototype, and the other edges are placed
SkippedWhenLookupFails ==
    EdgesPlaced =>
        \A i \in 1..Len(config.weathermapEdges) :
            LET edge == config.weathermapEdges[i]
            IN  EdgeEmitted(i) <=>
                    (/\ KnownLabel(edge.node1) \/ edge.node1 \in ObjectPrototypeKeys
                     /\ KnownLabel(edge.node2) \/ edge.node2 \in ObjectPrototypeKeys)

\* the node an edge attaches to under a label: the last of that label
NodeOf(l) ==
    config.weathermapNodes[
        CHOOSE k \in 1..Len(config.weathermapNodes) :
            /\ config.weathermapNodes[k].label = l
            /\ \A m \in (k + 1)..Len(config.weathermapNodes) :
                   config.weathermapNodes[m].label # l]

\* the centre (x + width/2, y + height/2) of the rectangle of a node
RectCentre(node) ==
    [x |-> Num(((2 * node.x + node.width) * Unit) \div 2),
     y |-> Num(((2 * node.y + node.height) * Unit) \div 2)]

BothKnown(edge) == KnownLabel(edge.node1) /\ KnownLabel(edge.node2)

Bent(edge) == edge.bendDirection # 0 /\ edge.bendMagnitude # 0

\* the groups of strokes among the children of the element of an edge
StrokeGroups(el) == SelectSeq(el.children, LAMBDA c : "paths" \in DOMAIN c)

\* C11: a single-metric edge between two configured nodes runs from the
\* centre of node1's rectangle to the centre of node2's rectangle: with a
\* single-entry width pattern its path starts and ends at the centres, and
\* with more strokes every path is the centre-to-centre segment moved as a
\* whole; its paths are curves ("C") exactly when bendDirection and
\* bendMagnitude are both non-zero, and straight lines ("L") otherwise
C11_CentreToCentre ==
    EdgesPlaced =>
        \A j \in 1..Len(svg.edgeGroup) :
            LET edge == config.weathermapEdges[svg.edgeGroup[j].of]
                paths == StrokeGroups(svg.edgeGroup[j])[1].paths
                c1 == RectCentre(NodeOf(edge.node1))
                c2 == RectCentre(NodeOf(edge.node2))
            IN  (edge.metric2Name = none /\ BothKnown(edge)) =>
                    /\ Len(paths) >= 1
                    /\ \A k \in 1..Len(paths) :
                          /\ paths[k].d.cmd = (IF Bent(edge) THEN "C" ELSE "L")
                          /\ c1 # c2 =>
                                /\ JsSub(paths[k].d.start.x, c1.x) = JsSub(paths[k].d.end.x, c2.x)
                                /\ JsSub(paths[k].d.start.y, c1.y) = JsSub(paths[k].d.end.y, c2.y)
                                /\ ~IsNaN(paths[k].d.start.x) /\ ~IsNaN(paths[k].d.start.y)
                    /\ Len(paths) = 1 => (paths[1].d.start = c1 /\ paths[1].d.end = c2)

\* the example of the claim: the nodes (0,0,50,20) and (100,0,50,20), a bend
\* direction without a magnitude, and the straight line (25,10)-(125,10)
C11_Witness ==
    /\ EdgesPlaced
    /\ \E j \in 1..Len(svg.edgeGroup) :
          LET edge == config.weathermapEdges[svg.edgeGroup[j].of]
          IN  /\ edge.metric2Name = none
              /\ edge.bendDirection # 0
              /\ NodeOf("A") = NodeA /\ NodeOf("B") = NodeB
              /\ StrokeGroups(svg.edgeGroup[j])[1].paths[1].d
                    = [cmd |-> "L", start |-> Point(25, 10), end |-> Point(125, 10)]

-----------------------------------------------------------------------------
(* Claims about the Bezier splitter *)

Halved == depth >= 1

P1 == curve.start

C1p == curve.control1

C2p == curve.control2

P2 == curve.end

\* the point (a*p + b*q + c*r + d*s) / n, for points with finite coordinates
Combine(a, p, b, q, c, r, d, s, n) ==
    [x |-> Num((a * p.x.num + b * q.x.num + c * r.x.num + d * s.x.num) \div n),
     y |-> Num((a * p.y.num + b * q.y.num + c * r.y.num + d * s.y.num) \div n)]

\* the de Casteljau split at t = 0.5 in closed form
DeCasteljau(p1, c1, c2, p2) ==
    << p1,
       Combine(1, p1, 1, c1, 0, c2, 0, p2, 2),
       Combine(1, p1, 2, c1, 1, c2, 0, p2, 4),
       Combine(1, p1, 3, c1, 3, c2, 1, p2, 8),
       Combine(0, p1, 1, c1, 2, c2, 1, p2, 4),
       Combine(0, p1, 0, c1, 1, c2, 1, p2, 2),
       p2 >>

\* C6: with both controls present halveCubicBezier returns the de Casteljau
\* split at t = 0.5: [p1, m1, q1, o, q2, m3, p2], element 0 is p1, element 6
\* is p2 and element 3 is the curve's point (p1 + 3 c1 + 3 c2 + p2) / 8.
C6_DeCasteljauSplit ==
    (Halved /\ C1p # null /\ C2p # null) =>
        /\ Len(halved) = 7
        /\ halved = DeCasteljau(P1, C1p, C2p, P2)
        /\ halved[1] = P1
        /\ halved[7] = P2
        /\ 8 * halved[4].x.num = P1.x.num + 3 * C1p.x.num + 3 * C2p.x.num + P2.x.num
        /\ 8 * halved[4].y.num = P1.y.num + 3 * C1p.y.num + 3 * C2p.y.num + P2.y.num

C6_Witness ==
    /\ Halved
    /\ P1 = Point(0, 0) /\ C1p = Point(0, 10) /\ C2p = Point(10, 10) /\ P2 = Point(10, 0)
    /\ halved[4] = [x |-> Num(5 * Unit), y |-> Num(15 * (Unit \div 2))]

\* C7: with both controls null the 7-tuple has the midpoint of p1 and p2 as
\* element 3 and each of the elements 1, 2, 4, 5 is p1, p2 or that midpoint;
\* (0,0)-(10,0) has the midpoint (5,0).
C7_DegenerateHalving ==
    (Halved /\ C1p = null /\ C2p = null) =>
        /\ Len(halved) = 7
        /\ halved[1] = P1
        /\ halved[7] = P2
        /\ 2 * halved[4].x.num = P1.x.num + P2.x.num
        /\ 2 * halved[4].y.num = P1.y.num + P2.y.num
        /\ \A j \in {2, 3, 5, 6} : halved[j] \in {P1, P2, halved[4]}
        /\ (P1 = Point(0, 0) /\ P2 = Point(10, 0)) => halved[4] = Point(5, 0)

C7_Witness ==
    /\ Halved /\ C1p = null /\ C2p = null
    /\ P1 = Point(0, 0) /\ P2 = Point(10, 0)
    /\ halved[4] = Point(5, 0)
    /\ halved[3] = Point(5, 0)

\* C8: with exactly one control absent the result is that of the general
\* algorithm with the missing control on its own end point:
\* halve(p1, null, c2, p2) = halve(p1, p1, c2, p2) and
\* halve(p1, c1, null, p2) = halve(p1, c1, p2, p2).
C8_OneControlAbsent ==
    /\ (Halved /\ C1p = null /\ C2p # null) =>
          /\ halved = halveCubicBezier(P1, P1, C2p, P2)
          /\ halved = DeCasteljau(P1, P1, C2p, P2)
    /\ (Halved /\ C1p # null /\ C2p = null) =>
          /\ halved = halveCubicBezier(P1, C1p, P2, P2)
          /\ halved = DeCasteljau(P1, C1p, P2, P2)

C8_Witness ==
    /\ Halved /\ C1p = null
    /\ P1 = Point(0, 0) /\ C2p = Point(10, 10) /\ P2 = Point(10, 0)
    /\ halved[2] = Point(0, 0)
    /\ halved[3] = [x |-> Num(5 * (Unit \div 2)), y |-> Num(5 * (Unit \div 2))]

\* n^3 times one coordinate of the curve's analytic point at t = k/n
Bernstein(k, n, a, b, c, d) ==
      (n - k) * (n - k) * (n - k) * a
    + 3 * (n - k) * (n - k) * k * b
    + 3 * (n - k) * k * k * c
    + k * k * k * d

\* the point p is the analytic point of curve at t = k/n
OnCurveAt(p, k, n) ==
    /\ n * n * n * p.x.num = Bernstein(k, n, P1.x.num, C1p.x.num, C2p.x.num, P2.x.num)
    /\ n * n * n * p.y.num = Bernstein(k, n, P1.y.num, C1p.y.num, C2p.y.num, P2.y.num)

\* C9: the halves are the control polygons of the curve on [0, 0.5] and
\* [0.5, 1]: after a cubic Bezier has been halved and every half halved
\* again, d times in all, the 2^d segments are joined end to start and the
\* k-th junction is the curve's analytic point at t = k / 2^d; after three
\* rounds these are the points at t = k/8, among them 0.125, 0.375, 0.625
\* and 0.875.
C9_RehalvingFollowsCurve ==
    (Halved /\ C1p # null /\ C2p # null) =>
        LET n == 2 ^ depth IN
        /\ Len(segments) = n
        /\ segments[1].start = P1
        /\ segments[n].end = P2
        /\ \A k \in 1..(n - 1) :
              /\ segments[k].end = segments[k + 1].start
              /\ OnCurveAt(segments[k].end, k, n)

C9_Witness ==
    /\ depth = 3 /\ Len(segments) = 8
    /\ P1 = Point(0, 0) /\ C1p = Point(0, 10) /\ C2p = Point(10, 10) /\ P2 = Point(10, 0)
    /\ \A k \in {1, 3, 5, 7} : OnCurveAt(segments[k].end, k, 8)
    /\ segments[1].end # segments[1].start

\* every coordinate held after d rounds is a whole multiple of Unit / 8^d, so
\* no midpoint was rounded
ExactHalving ==
    \A i \in 1..Len(segments) :
        \A p \in {segments[i].start, segments[i].end} \cup
                 ({segments[i].control1, segments[i].control2} \ {null}) :
            /\ p.x.num % (2 ^ (3 * (Levels - depth))) = 0
            /\ p.y.num % (2 ^ (3 * (Levels - depth))) = 0

-----------------------------------------------------------------------------
(* Claims about the gradient resolver *)

Returned == gpc = "returned"

Recognised == gradient.type \in {"linear", "steps"}

NStops == Len(gradient.stops)

\* the channel values of the colours of the palette, written out
Channels(c) ==
    CASE c = Black -> <<0, 0, 0>>
      [] c = White -> <<255, 255, 255>>
      [] c = Red -> <<255, 0, 0>>
      [] c = Green -> <<0, 255, 0>>
      [] c = Brown -> <<128, 64, 33>>

\* stops[i].position <= value < stops[i+1].position
Between(i) ==
    /\ ~IsNaN(value)
    /\ gradient.stops[i].position <= value.num
    /\ value.num < gradient.stops[i + 1].position

\* C1: for a linear or steps gradient with a non-empty sorted stop list, a
\* value below the first stop's position gets the first stop's colour
\* verbatim and a value at or above the last stop's position gets the last
\* stop's colour verbatim.
C1_BoundaryClamp ==
    (Returned /\ Recognised /\ NStops > 0 /\ ~IsNaN(value)) =>
        /\ (value.num < gradient.stops[1].position => result = gradient.stops[1][colorType])
        /\ (value.num >= gradient.stops[NStops].position
                => result = gradient.stops[NStops][colorType])

C1_Witness ==
    /\ Returned /\ gradient.type = "linear" /\ NStops = 2 /\ ~IsNaN(value)
    /\ value.num >= gradient.stops[2].position
    /\ gradient.stops[1].position < gradient.stops[2].position
    /\ gradient.stops[1][colorType] # gradient.stops[2][colorType]
    /\ result = gradient.stops[2][colorType]

C3_Channel(i, k) ==
    LET from == Channels(gradient.stops[i][colorType])[k]
        to == Channels(gradient.stops[i + 1][colorType])[k]
        posFrom == gradient.stops[i].position
        posTo == gradient.stops[i + 1].position
    IN  (from * (posTo - posFrom) + (value.num - posFrom) * (to - from)) \div (posTo - posFrom)

C3_Example(v, text) ==
    (/\ NStops = 2 /\ value = Num(v)
     /\ gradient.stops[1].position = 0 /\ gradient.stops[1][colorType] = Black
     /\ gradient.stops[2].position = 100 /\ gradient.stops[2][colorType] = White)
        => result = text

\* C3: in linear mode a value with stops[i].position <= value <
\* stops[i+1].position gets rgb(r, g, b), each channel the floor of the
\* interpolation between the two stops' parsed channel values; black at 0 and
\* white at 100 give rgb(127, 127, 127) for 50 and rgb(191, 191, 191) for 75.
C3_LinearInterpolation ==
    (Returned /\ gradient.type = "linear") =>
        /\ \A i \in 1..(NStops - 1) :
              Between(i) => result = RgbString(C3_Channel(i, 1), C3_Channel(i, 2), C3_Channel(i, 3))
        /\ C3_Example(50, <<"r", "g", "b", "(", "1", "2", "7", ",", " ",
                            "1", "2", "7", ",", " ", "1", "2", "7", ")">>)
        /\ C3_Example(75, <<"r", "g", "b", "(", "1", "9", "1", ",", " ",
                            "1", "9", "1", ",", " ", "1", "9", "1", ")">>)

C3_Witness ==
    /\ Returned /\ gradient.type = "linear" /\ NStops = 2 /\ value = Num(50)
    /\ gradient.stops[1].position = 0 /\ gradient.stops[1][colorType] = Black
    /\ gradient.stops[2].position = 100 /\ gradient.stops[2][colorType] = White
    /\ result = <<"r", "g", "b", "(", "1", "2", "7", ",", " ",
                  "1", "2", "7", ",", " ", "1", "2", "7", ")">>

C4_Example(v, text) ==
    (/\ NStops = 2 /\ value = Num(v) /\ colorType = "strokeColor"
     /\ gradient.stops[1].position = 0 /\ gradient.stops[1].strokeColor = Red
     /\ gradient.stops[2].position = 50 /\ gradient.stops[2].strokeColor = Green)
        => result = text

\* C4: in steps mode a value with stops[i].position <= value <
\* stops[i+1].position gets stops[i]'s colour string verbatim; red at 0 and
\* green at 50 give #ff0000 for 25 and #00ff00 for 75.
C4_StepsVerbatim ==
    (Returned /\ gradient.type = "steps") =>
        /\ \A i \in 1..(NStops - 1) : Between(i) => result = gradient.stops[i][colorType]
        /\ C4_Example(25, <<"#", "f", "f", "0", "0", "0", "0">>)
        /\ C4_Example(75, <<"#", "0", "0", "f", "f", "0", "0">>)

C4_Witness ==
    /\ Returned /\ gradient.type = "steps" /\ NStops = 2 /\ value = Num(25)
    /\ colorType = "strokeColor"
    /\ gradient.stops[1].position = 0 /\ gradient.stops[1].strokeColor = Red
    /\ gradient.stops[2].position = 50 /\ gradient.stops[2].strokeColor = Green
    /\ result = <<"#", "f", "f", "0", "0", "0", "0">>

\* the string denotes the colour c: c itself, or rgb(r, g, b) with c's channels
DenotesColor(text, c) ==
    \/ text = c
    \/ text = RgbString(Channels(c)[1], Channels(c)[2], Channels(c)[3])

\* C5 as stated: a value equal to the position of any stop s of the sorted
\* list gets s's colour.
C5_Original ==
    (Returned /\ Recognised /\ ~IsNaN(value)) =>
        \A i \in 1..NStops :
            value.num = gradient.stops[i].position
                => DenotesColor(result, gradient.stops[i][colorType])

\* the last stop among those at stop i's position
LastAtPosition(i) ==
    \A j \in (i + 1)..NStops : gradient.stops[j].position # gradient.stops[i].position

\* C5, amended: a value equal to the position of a stop s that is the last
\* stop at that position (every stop, when the positions are pairwise
\* distinct) gets s's colour: s's colour string verbatim in steps mode and
\* for the last stop of the list, rgb(r, g, b) with s's channel values
\* otherwise in linear mode.
C5_ExactPositionLastStopWins ==
    (Returned /\ Recognised /\ ~IsNaN(value)) =>
        \A i \in 1..NStops :
            (value.num = gradient.stops[i].position /\ LastAtPosition(i)) =>
                LET c == gradient.stops[i][colorType] IN
                IF gradient.type = "steps" \/ i = NStops
                THEN result = c
                ELSE result = RgbString(Channels(c)[1], Channels(c)[2], Channels(c)[3])

C5_Witness ==
    /\ Returned /\ gradient.type = "linear" /\ NStops = 3 /\ value = Num(50)
    /\ gradient.stops[1].position = 0
    /\ gradient.stops[2].position = 50 /\ gradient.stops[2][colorType] = Brown
    /\ gradient.stops[3].position = 100
    /\ result = <<"r", "g", "b", "(", "1", "2", "8", ",", " ", "6", "4", ",", " ", "3", "3", ")">>

-----------------------------------------------------------------------------
(* Claims about the segments of an edge *)

\* the stroke colour of a segment of the given metric
SegmentStroke(metricName) ==
    IF HasValue(metricName)
    THEN gradientColorForValue(state.sortedGradient, "strokeColor",
                               ToNumber(ValueOf(metricName)))
    ELSE <<"black">>

\* the title of a segment: the names and the arrow, and with withValue the
\* value of the metric in parentheses when it has one
SegmentTitle(base, metricName, withValue) ==
    IF withValue /\ HasValue(metricName)
    THEN base \o <<" (">> \o ToFixed2(ValueOf(metricName)) \o <<")">>
    ELSE base

Twice(p, q) ==
    [x |-> Num(2 * p.x.num - q.x.num), y |-> Num(2 * p.y.num - q.y.num)]

\* the two halves a and b are the split at t = 0.5 of a curve from p1 to p2:
\* of the straight line, or of the cubic whose control points the outer
\* control points of the halves determine
SplitOf(edge, a, b, p1, p2) ==
    LET split == <<a.start, a.control1, a.control2, a.end, b.control1, b.control2, b.end>>
        mid == Combine(1, p1, 0, p1, 0, p2, 1, p2, 2)
    IN  /\ a.cmd = "C" /\ b.cmd = "C"
        /\ b.start = a.end
        /\ IF Bent(edge)
           THEN split = DeCasteljau(p1, Twice(a.control1, p1), Twice(b.control2, p2), p2)
           ELSE split = <<p1, p1, mid, mid, mid, p2, p2>>

\* what C12 says of the element of an edge, with the titles as given
SegmentsAsClaimed(el, withValue) ==
    LET edge == config.weathermapEdges[el.of]
        segs == StrokeGroups(el)
    IN  IF edge.metric2Name # none
        THEN /\ Len(segs) = 2
             /\ StyleValue(segs[1].style, "stroke") = Some(SegmentStroke(edge.metricName))
             /\ StyleValue(segs[2].style, "stroke") = Some(SegmentStroke(edge.metric2Name))
             /\ segs[1].title = SegmentTitle(<<edge.node1, " -> ", edge.node2>>,
                                             edge.metricName, withValue)
             /\ segs[2].title = SegmentTitle(<<edge.node2, " -> ", edge.node1>>,
                                             edge.metric2Name, withValue)
             /\ (BothKnown(edge) /\ Len(segs[1].paths) = 1 /\ Len(segs[2].paths) = 1) =>
                    SplitOf(edge, segs[1].paths[1].d, segs[2].paths[1].d,
                            RectCentre(NodeOf(edge.node1)), RectCentre(NodeOf(edge.node2)))
        ELSE /\ Len(segs) = 1
             /\ StyleValue(segs[1].style, "stroke") = Some(SegmentStroke(edge.metricName))
             /\ segs[1].title = SegmentTitle(<<edge.node1, " <-> ", edge.node2>>,
                                             edge.metricName, withValue)

\* C12 as stated: an edge with metric2Name has exactly two segments, the
\* first from node1's anchor to the midpoint of the curve, coloured by
\* metricName and titled "node1 -> node2", the second from that midpoint to
\* node2's anchor, coloured by metric2Name and titled "node2 -> node1"; an
\* edge without metric2Name has exactly one segment, titled "node1 <-> node2"
C12_Original ==
    EdgesPlaced =>
        \A j \in 1..Len(svg.edgeGroup) : SegmentsAsClaimed(svg.edgeGroup[j], FALSE)

\* C12, amended: the same segments, colours and midpoint, with the title of
\* a segment whose metric has a value followed by " (value)", the value to
\* two decimals
C12_SegmentsAndTitles ==
    EdgesPlaced =>
        \A j \in 1..Len(svg.edgeGroup) : SegmentsAsClaimed(svg.edgeGroup[j], TRUE)

\* a bent edge of two metrics between two nodes, its second half with a value
\* and its first half without
C12_Witness ==
    /\ EdgesPlaced
    /\ \E j \in 1..Len(svg.edgeGroup) :
          LET edge == config.weathermapEdges[svg.edgeGroup[j].of]
          IN  /\ edge.metric2Name # none
              /\ BothKnown(edge)
              /\ Bent(edge)
              /\ HasValue(edge.metric2Name)
              /\ ~HasValue(edge.metricName)

-----------------------------------------------------------------------------
(* Claims about the colouring of a segment *)

\* placeEdges has run, to its end or to a throw
EdgesRan == EdgesPlaced \/ rpc = "threwInEdges"

\* the metric of the segment k of an edge
SegmentMetric(edge, k) == IF k = 1 THEN edge.metricName ELSE edge.metric2Name

\* the metric name is unset or has no entry in the value map
NoEntry(metricName) == metricName = none \/ metricName[1] \notin DOMAIN currentValues

\* the no-data treatment: black, with the no-value dash pattern
NoDataStyle ==
    << <<"fill", <<"none">> >>, <<"stroke", <<"black">> >>,
       <<"stroke-dasharray", config.noValueDashArray>> >>

ColouredAsClaimed(seg, metricName) ==
    IF NoEntry(metricName)
    THEN seg.style = NoDataStyle
    ELSE StyleValue(seg.style, "stroke")
            = Some(gradientColorForValue(state.sortedGradient, "strokeColor",
                                         currentValues[metricName[1]]))

\* C13: every segment whose metric name is unset or has no entry in the
\* value map is black with the configured no-value dash pattern, whatever
\* the gradient and the dashArray of the edge style; every segment whose
\* metric has a value has the stroke gradientColorForValue gives for it
C13_NoDataTreatment ==
    EdgesRan =>
        \A j \in 1..Len(svg.edgeGroup) :
            LET segs == StrokeGroups(svg.edgeGroup[j])
            IN  \A k \in 1..Len(segs) :
                    ColouredAsClaimed(segs[k],
                        SegmentMetric(config.weathermapEdges[svg.edgeGroup[j].of], k))

\* the segment of a metric that has no entry in the value map is coloured
\* by the gradient, and placeEdges has thrown on it
C13_Witness ==
    /\ rpc = "threwInEdges"
    /\ \E j \in 1..Len(svg.edgeGroup) :
          LET edge == config.weathermapEdges[svg.edgeGroup[j].of]
              seg == StrokeGroups(svg.edgeGroup[j])[1]
          IN  /\ edge.metricName # none
              /\ NoEntry(edge.metricName)
              /\ StyleValue(seg.style, "stroke") = Some(emergencyColor)
              /\ seg.paths = <<>>

\* the claim holds of the segments whose metric name is no name of a
\* property of Object.prototype
NoDataWhenLookupFails ==
    EdgesRan =>
        \A j \in 1..Len(svg.edgeGroup) :
            LET segs == StrokeGroups(svg.edgeGroup[j])
            IN  \A k \in 1..Len(segs) :
                    LET metricName ==
                            SegmentMetric(config.weathermapEdges[svg.edgeGroup[j].of], k)
                    IN  (metricName = none \/ metricName[1] \notin ObjectPrototypeKeys)
                            => ColouredAsClaimed(segs[k], metricName)

\* C14: unmeasuredDashArray is the dash array of an edge without a metric:
\* every segment with no metric name has stroke-dasharray =
\* config.unmeasuredDashArray
C14_UnmeasuredDashArray ==
    EdgesRan =>
        \A j \in 1..Len(svg.edgeGroup) :
            LET segs == StrokeGroups(svg.edgeGroup[j])
            IN  \A k \in 1..Len(segs) :
                    SegmentMetric(config.weathermapEdges[svg.edgeGroup[j].of], k) = none
                        => StyleValue(segs[k].style, "stroke-dasharray")
                              = Some(config.unmeasuredDashArray)

\* a segment with no metric name carries the no-value dash pattern, which
\* differs from the unmeasured one
C14_Witness ==
    /\ EdgesRan
    /\ config.noValueDashArray # config.unmeasuredDashArray
    /\ \E j \in 1..Len(svg.edgeGroup) :
          /\ config.weathermapEdges[svg.edgeGroup[j].of].metricName = none
          /\ StyleValue(StrokeGroups(svg.edgeGroup[j])[1].style, "stroke-dasharray")
                = Some(config.noValueDashArray)

-----------------------------------------------------------------------------
(* Claims about the width pattern of an edge *)

Separators == {" ", ","}

\* the style of the given name in the configuration, or null
ConfiguredStyle(styleName) ==
    IF styleName # none
       /\ \E k \in 1..Len(config.weathermapStyles) :
             config.weathermapStyles[k].name = styleName[1]
    THEN config.weathermapStyles[
            CHOOSE k \in 1..Len(config.weathermapStyles) :
                config.weathermapStyles[k].name = styleName[1]]
    ELSE null

\* the entries of a strokeWidthArray: the runs of characters between the
\* separators, as numbers
Entries(s) ==
    LET starts == {i \in 1..Len(s) : s[i] \notin Separators
                                      /\ (i = 1 \/ s[i - 1] \in Separators)}
        ordered == [k \in 1..Cardinality(starts) |->
                        CHOOSE i \in starts : Cardinality({m \in starts : m < i}) = k - 1]
        RunEnd(i) == CHOOSE e \in i..Len(s) :
                        /\ \A m \in i..e : s[m] \notin Separators
                        /\ (e = Len(s) \/ s[e + 1] \in Separators)
    IN  [k \in 1..Len(ordered) |->
            Num(DecVal(SubSeq(s, ordered[k], RunEnd(ordered[k]))) * Unit)]

\* the stroke widths C15 expects for an edge of the given style: every
\* second entry, from the first, of the pattern, appended to itself when its
\* length is even
ExpectedStrokes(styleName) ==
    LET style == ConfiguredStyle(styleName)
        pattern == IF style # null /\ style.strokeWidthArray # none
                   THEN Entries(style.strokeWidthArray[1])
                   ELSE <<Num(config.strokeWidth * Unit)>>
        L == Len(pattern)
        completed == IF L % 2 = 0 THEN pattern \o pattern ELSE pattern
    IN  [k \in 1..(IF L % 2 = 0 THEN L ELSE (L + 1) \div 2) |-> completed[2 * k - 1]]

\* the stroke-width of every path of a segment, in order
PathWidths(seg) == [k \in 1..Len(seg.paths) |-> seg.paths[k].style[1][2][1]]

\* C15: a strokeWidthArray with an even number L of entries is processed
\* as the pattern appended to itself and yields L strokes, one with an odd
\* number L of entries is used as it is and yields (L+1)/2 strokes, and
\* without a strokeWidthArray the pattern is the default stroke width and
\* yields one stroke; the strokes have the widths of the stroke entries
C15_SelfCompletion ==
    EdgesPlaced =>
        \A j \in 1..Len(svg.edgeGroup) :
            LET segs == StrokeGroups(svg.edgeGroup[j])
            IN  \A k \in 1..Len(segs) :
                    PathWidths(segs[k]) =
                        ExpectedStrokes(config.weathermapEdges[svg.edgeGroup[j].of].styleName)

\* "2 1" gives the two strokes of 2 1 2 1 and "3,1, 3" gives two strokes,
\* in one configuration
C15_Witness ==
    /\ EdgesPlaced
    /\ \E j \in 1..Len(svg.edgeGroup) :
          /\ config.weathermapEdges[svg.edgeGroup[j].of].styleName = Some("double")
          /\ PathWidths(StrokeGroups(svg.edgeGroup[j])[1]) = <<Num(2 * Unit), Num(2 * Unit)>>
    /\ \E j \in 1..Len(svg.edgeGroup) :
          /\ config.weathermapEdges[svg.edgeGroup[j].of].styleName = Some("triple")
          /\ PathWidths(StrokeGroups(svg.edgeGroup[j])[1]) = <<Num(3 * Unit), Num(3 * Unit)>>

\* the width pattern makeAndPlaceEdge walks for the segments of an edge
WalkedPattern(edge) == StrokeWidths(getWeathermapStyle(edge.styleName))

\* C16: after the self-completion step the width pattern walked for the
\* offsets has odd length, and so ends on a stroke entry, for every
\* strokeWidthArray
C16_OddPattern ==
    EdgesPlaced =>
        \A j \in 1..Len(svg.edgeGroup) :
            Len(WalkedPattern(config.weathermapEdges[svg.edgeGroup[j].of])) % 2 = 1

\* the pattern "2 1" is walked as 2 1 2 1: four entries, two paths, and a
\* gap at the end
C16_Witness ==
    /\ EdgesPlaced
    /\ \E j \in 1..Len(svg.edgeGroup) :
          LET edge == config.weathermapEdges[svg.edgeGroup[j].of]
          IN  /\ edge.styleName = Some("double")
              /\ WalkedPattern(edge) = <<Num(2 * Unit), Num(Unit), Num(2 * Unit), Num(Unit)>>
              /\ Len(StrokeGroups(svg.edgeGroup[j])[1].paths) = 2

-----------------------------------------------------------------------------
(* Claims about the offsets of the strokes of an edge *)

Least(S) == CHOOSE m \in S : \A n \in S : m <= n

Greatest(S) == CHOOSE m \in S : \A n \in S : m >= n

\* the nodes lie on one horizontal line, so the perpendicular of a segment
\* is the y axis: the near and the far side of the stroke k of the first
\* segment of an edge, counted from the centre of node1
SideLow(edge, seg, k) ==
    seg.paths[k].d.start.y.num - RectCentre(NodeOf(edge.node1)).y.num
        - (PathWidths(seg)[k].num \div 2)

SideHigh(edge, seg, k) ==
    seg.paths[k].d.start.y.num - RectCentre(NodeOf(edge.node1)).y.num
        + (PathWidths(seg)[k].num \div 2)

ExtentLow(edge, seg) == Least({SideLow(edge, seg, k) : k \in 1..Len(seg.paths)})

ExtentHigh(edge, seg) == Greatest({SideHigh(edge, seg, k) : k \in 1..Len(seg.paths)})

\* an edge between two configured nodes with different centres
ProperEdge(edge) ==
    /\ BothKnown(edge)
    /\ RectCentre(NodeOf(edge.node1)) # RectCentre(NodeOf(edge.node2))

\* C17: the strokes of a segment are centred on the segment: the extent
\* they cover across the segment, from the outer side of the first stroke
\* to the outer side of the last, is symmetric about the offset 0 for every
\* width pattern, and the one stroke of a single-entry pattern is the
\* segment itself, moved by nothing
C17_CentredOnSegment ==
    EdgesPlaced =>
        \A j \in 1..Len(svg.edgeGroup) :
            LET edge == config.weathermapEdges[svg.edgeGroup[j].of]
                seg == StrokeGroups(svg.edgeGroup[j])[1]
            IN  (ProperEdge(edge) /\ seg.paths # <<>>) =>
                    /\ \A k \in 1..Len(seg.paths) : ~IsNaN(seg.paths[k].d.start.y)
                    /\ ExtentLow(edge, seg) + ExtentHigh(edge, seg) = 0
                    /\ Len(seg.paths) = 1 =>
                          seg.paths[1].d.start = RectCentre(NodeOf(edge.node1))

\* the two strokes of "2 1" on the edge from B to A cover the offsets -2..0
\* and 1..3: the extent -2..3 is off the centre by half the gap
C17_Witness ==
    /\ EdgesPlaced
    /\ \E j \in 1..Len(svg.edgeGroup) :
          LET edge == config.weathermapEdges[svg.edgeGroup[j].of]
              seg == StrokeGroups(svg.edgeGroup[j])[1]
          IN  /\ ProperEdge(edge)
              /\ edge.styleName = Some("double")
              /\ Len(seg.paths) = 2
              /\ ExtentLow(edge, seg) = 0 - 2 * Unit
              /\ ExtentHigh(edge, seg) = 3 * Unit

\* with an odd pattern, or the default width, the strokes are centred
CentredWhenOdd ==
    EdgesPlaced =>
        \A j \in 1..Len(svg.edgeGroup) :
            LET edge == config.weathermapEdges[svg.edgeGroup[j].of]
                seg == StrokeGroups(svg.edgeGroup[j])[1]
            IN  (/\ ProperEdge(edge)
                 /\ seg.paths # <<>>
                 /\ Len(WalkedPattern(edge)) % 2 = 1) =>
                    /\ ExtentLow(edge, seg) + ExtentHigh(edge, seg) = 0
                    /\ Len(seg.paths) = 1 =>
                          seg.paths[1].d.start = RectCentre(NodeOf(edge.node1))

-----------------------------------------------------------------------------
(* Claims about the order of the gradient stops *)

\* the stops in every order
Arrangements(stops) ==
    LET n == Len(stops)
    IN  {[i \in 1..n |-> stops[p[i]]] :
            p \in {q \in [1..n -> 1..n] : \A a, b \in 1..n : q[a] = q[b] => a = b}}

DistinctPositions(stops) ==
    \A a, b \in 1..Len(stops) : stops[a].position = stops[b].position => a = b

\* the one arrangement of the stops with ascending positions
Ascending(stops) ==
    CHOOSE s \in Arrangements(stops) :
        \A i \in 1..(Len(s) - 1) : s[i].position < s[i + 1].position

OwnValue(metricName) == metricName # none /\ metricName[1] \in DOMAIN currentValues

\* renderWeathermapInto has returned or thrown
Ended == rpc \in {"done", "threwInEdges", "threwInLegend"}

\* the colours and the legend of the output are those of the gradient g
ResolvedAgainst(g) ==
    /\ \A i \in 1..Len(svg.nodeGroup) :
              LET node == config.weathermapNodes[i]
              IN  OwnValue(node.metricName) =>
                      StyleValue(svg.nodeGroup[i].rect.style, "fill")
                          = Some(gradientColorForValue(g, "fillColor",
                                                       currentValues[node.metricName[1]]))
    /\ \A j \in 1..Len(svg.edgeGroup) :
              LET segs == StrokeGroups(svg.edgeGroup[j])
                  edge == config.weathermapEdges[svg.edgeGroup[j].of]
              IN  \A k \in 1..Len(segs) :
                      OwnValue(SegmentMetric(edge, k)) =>
                          StyleValue(segs[k].style, "stroke")
                              = Some(gradientColorForValue(g, "strokeColor",
                                         currentValues[SegmentMetric(edge, k)[1]]))
    /\ (rpc = "done" /\ config.legend.type # <<>>) =>
          /\ svg.defs = drawLegend(g, "strokeColor", Dec(config.id)).defs
                            \o drawLegend(g, "fillColor", Dec(config.id)).defs
          /\ svg.legendGroup[1].children = drawLegend(g, "strokeColor", Dec(config.id)).children
          /\ svg.legendGroup[2].children = drawLegend(g, "fillColor", Dec(config.id)).children
          /\ SubSeq(svg.legendGroup, 3, Len(svg.legendGroup)) = LegendLabels(config.legend, g)

\* C18: the colours are resolved against the stops in ascending order of
\* position, whatever the order of the configuration: the fills of the
\* nodes, the strokes of the edges and the legend are those of the
\* ascending arrangement of every reordering of the configured stops, so
\* two configurations that differ in the order of the stops alone give the
\* same colours and legend
C18_StopOrderIrrelevant ==
    (Ended /\ DistinctPositions(config.gradient.stops)) =>
        /\ \A other \in Arrangements(config.gradient.stops) :
               Ascending(other) = Ascending(config.gradient.stops)
        /\ state.sortedGradient.stops = Ascending(config.gradient.stops)
        /\ state.sortedGradient.type = config.gradient.type
        /\ ResolvedAgainst(state.sortedGradient)

\* a finished rendering of a configuration whose stops are listed in
\* descending order, with a coloured node, a coloured edge and a legend
C18_Witness ==
    /\ rpc = "done"
    /\ config.legend.type # <<>>
    /\ Len(config.gradient.stops) = 2
    /\ config.gradient.stops[1].position > config.gradient.stops[2].position
    /\ \E i \in 1..Len(config.weathermapNodes) : OwnValue(config.weathermapNodes[i].metricName)
    /\ \E j \in 1..Len(svg.edgeGroup) :
          OwnValue(config.weathermapEdges[svg.edgeGroup[j].of].metricName)
    /\ Len(svg.legendGroup) >= 3

-----------------------------------------------------------------------------
(* Claims about rendering again *)

\* the title of a node carries the value this invocation was given for its
\* metric, and a node without such a value has no title
ShowsOwnValues ==
    \A i \in 1..Len(svg.nodeGroup) :
        LET node == config.weathermapNodes[i]
        IN  svg.nodeGroup[i].title =
                IF OwnValue(node.metricName)
                THEN Some(<<node.label, " (">>
                          \o ToFixed2(currentValues[node.metricName[1]]) \o <<")">>)
                ELSE none

-----------------------------------------------------------------------------
(* Claims about the legend of a steps gradient *)

\* the rectangle of the stop i of the sorted stops: from its position to
\* the position of the next stop, or to 100 after the last stop
StepRectangle(stops, i, ct) ==
    [x |-> stops[i].position,
     y |-> 0,
     width |-> (IF i < Len(stops) THEN stops[i + 1].position ELSE 100) - stops[i].position,
     height |-> 5,
     style |-> << <<"fill", stops[i][ct]>> >>]

LegendPlaced == rpc = "done" /\ config.legend.type # <<>>

\* C20: for a steps gradient with n >= 1 sorted stops each ramp of the
\* legend, the one of the stroke colours and the one of the fill colours,
\* has exactly n rectangles in the order of the stops: one per stop, from
\* its position to the position of the next stop and in its colour, the
\* last from the position of the last stop to 100
C20_SteppedLegend ==
    (LegendPlaced /\ config.gradient.type = "steps" /\ Len(config.gradient.stops) >= 1) =>
        LET stops == Ascending(config.gradient.stops)
        IN  /\ svg.legendGroup[1].children
                  = [i \in 1..Len(stops) |-> StepRectangle(stops, i, "strokeColor")]
            /\ svg.legendGroup[2].children
                  = [i \in 1..Len(stops) |-> StepRectangle(stops, i, "fillColor")]
            /\ svg.defs = <<>>

\* the stops 50, 0, 80 give the rectangles 0..50, 50..80 and 80..100
C20_Witness ==
    /\ LegendPlaced
    /\ config.gradient.type = "steps"
    /\ Len(svg.legendGroup[1].children) = 3
    /\ svg.legendGroup[1].children[1].x = 0 /\ svg.legendGroup[1].children[1].width = 50
    /\ svg.legendGroup[1].children[2].x = 50 /\ svg.legendGroup[1].children[2].width = 30
    /\ svg.legendGroup[1].children[3].x = 80 /\ svg.legendGroup[1].children[3].width = 20
    /\ svg.legendGroup[2].children[3].style = << <<"fill", White>> >>

-----------------------------------------------------------------------------
(* Claims about the walk over the width pattern *)

\* the sum of all entries of a pattern, and of its stroke entries alone
RECURSIVE SumAll(_)
SumAll(w) == IF w = <<>> THEN 0 ELSE w[Len(w)].num + SumAll(SubSeq(w, 1, Len(w) - 1))

RECURSIVE SumStrokes(_)
SumStrokes(w) ==
    IF w = <<>> THEN 0
    ELSE (IF Len(w) % 2 = 1 THEN w[Len(w)].num ELSE 0) + SumStrokes(SubSeq(w, 1, Len(w) - 1))

\* the offset vector of a segment from left to right is (0, 1), and (0, -1)
\* from right to left
Axis(edge) ==
    IF RectCentre(NodeOf(edge.node1)).x.num > RectCentre(NodeOf(edge.node2)).x.num
    THEN 0 - 1 ELSE 1

\* the first stroke of the first segment of every edge of several strokes
\* lies where a walk that starts at minus half of total puts it
FirstStrokeFrom(total(_)) ==
    EdgesPlaced =>
        \A j \in 1..Len(svg.edgeGroup) :
            LET edge == config.weathermapEdges[svg.edgeGroup[j].of]
                seg == StrokeGroups(svg.edgeGroup[j])[1]
                pattern == WalkedPattern(edge)
            IN  (ProperEdge(edge) /\ seg.paths # <<>> /\ Len(pattern) > 1) =>
                    seg.paths[1].d.start.y.num - RectCentre(NodeOf(edge.node1)).y.num
                        = Axis(edge) * ((pattern[1].num \div 2) - (total(pattern) \div 2))

\* the statement as the specification has it: the walk starts at minus half
\* of the sum of the stroke entries, the gaps left out
C21_Original == FirstStrokeFrom(SumStrokes)

\* C21: the running offset of the walk starts at minus half of the total
\* width, where the total is the sum of all entries of the completed
\* pattern, the gap entries included
C21_StartOfWalk == FirstStrokeFrom(SumAll)

\* the pattern 3 1 3 has the total 7: the walk starts at -3.5 and the first
\* stroke lies at -2, where a total of 6 would put it at -1.5
C21_Witness ==
    /\ EdgesPlaced
    /\ \E j \in 1..Len(svg.edgeGroup) :
          LET edge == config.weathermapEdges[svg.edgeGroup[j].of]
              seg == StrokeGroups(svg.edgeGroup[j])[1]
          IN  /\ ProperEdge(edge)
              /\ edge.styleName = Some("triple")
              /\ WalkedPattern(edge) = <<Num(3 * Unit), Num(Unit), Num(3 * Unit)>>
              /\ Len(seg.paths) = 2
              /\ seg.paths[1].d.start.y.num - RectCentre(NodeOf(edge.node1)).y.num
                    = 0 - 2 * Unit

\* where the walk puts the centreline of the stroke k: the running offset
\* before the entry 2k - 1 plus half of the width of that entry
CentrelineOffset(pattern, k) ==
    SumAll(SubSeq(pattern, 1, 2 * k - 2)) - (SumAll(pattern) \div 2)
        + (pattern[2 * k - 1].num \div 2)

\* the point p is the point q moved by dy along the y axis
Moved(p, q, dy) == p.x = q.x /\ p.y.num = q.y.num + dy

\* every point of the path d is the same point of the path e moved by dy
PathMoved(d, e, dy) ==
    /\ d.cmd = e.cmd
    /\ Moved(d.start, e.start, dy)
    /\ Moved(d.end, e.end, dy)
    /\ d.cmd = "C" => (Moved(d.control1, e.control1, dy) /\ Moved(d.control2, e.control2, dy))

\* C22: in the walk a gap entry emits nothing and moves the running offset
\* on by its width; the k-th stroke entry emits the k-th path, which is the
\* segment with its start, its control points and its end moved by the
\* same vector, the offset axis times the running offset plus half of the
\* stroke width, and which has the width of that entry; the running offset
\* then moves on by the stroke width, so the paths come in the order of the
\* pattern at offsets that do not decrease
C22_OffsetWalk ==
    EdgesPlaced =>
        \A j \in 1..Len(svg.edgeGroup) :
            LET edge == config.weathermapEdges[svg.edgeGroup[j].of]
                segs == StrokeGroups(svg.edgeGroup[j])
                pattern == WalkedPattern(edge)
            IN  ProperEdge(edge) =>
                  \A s \in 1..Len(segs) :
                    LET paths == segs[s].paths
                    IN  /\ Len(paths) = (Len(pattern) + 1) \div 2
                        /\ \A k \in 1..Len(paths) :
                              /\ PathWidths(segs[s])[k] = pattern[2 * k - 1]
                              /\ PathMoved(paths[k].d, paths[1].d,
                                           Axis(edge) * (CentrelineOffset(pattern, k)
                                                           - CentrelineOffset(pattern, 1)))
                              /\ k > 1 => CentrelineOffset(pattern, k - 1)
                                              <= CentrelineOffset(pattern, k)
                        /\ s = 1 =>
                              Moved(paths[1].d.start, RectCentre(NodeOf(edge.node1)),
                                    IF Len(pattern) > 1
                                    THEN Axis(edge) * CentrelineOffset(pattern, 1) ELSE 0)
                        /\ s = Len(segs) =>
                              Moved(paths[1].d.end, RectCentre(NodeOf(edge.node2)),
                                    IF Len(pattern) > 1
                                    THEN Axis(edge) * CentrelineOffset(pattern, 1) ELSE 0)

\* the bent edge from B to A with the pattern 2 1 2 1: two curves, the
\* second the first moved by 3 against the axis, control points included
C22_Witness ==
    /\ EdgesPlaced
    /\ \E j \in 1..Len(svg.edgeGroup) :
          LET edge == config.weathermapEdges[svg.edgeGroup[j].of]
              paths == StrokeGroups(svg.edgeGroup[j])[1].paths
          IN  /\ ProperEdge(edge)
              /\ Bent(edge)
              /\ edge.styleName = Some("double")
              /\ Len(paths) = 2
              /\ paths[1].d.cmd = "C"
              /\ paths[2].d.control1.y.num = paths[1].d.control1.y.num - 3 * Unit
              /\ paths[2].d.start.y.num = paths[1].d.start.y.num - 3 * Unit

-----------------------------------------------------------------------------
(* Claims about normalizeAngle *)

\* the angle returned lies in (-pi, pi] and differs from the angle handed
\* in by a multiple of 2 pi
Normalized ==
    /\ ~IsHuge(runningAngle)
    /\ ~IsHuge(angleInput)
    /\ runningAngle.num > 0 - MathPI
    /\ runningAngle.num <= MathPI
    /\ (runningAngle.num - angleInput.num) % (2 * MathPI) = 0

\* C23: normalizeAngle terminates for every finite angle, and the angle it
\* returns lies in (-pi, pi] and differs from the angle handed in by an
\* integer multiple of 2 pi
C23_NormalizeAngleTotal ==
    /\ <>(npc = "returned")
    /\ [](npc = "returned" => Normalized)

\* normalizeAngle(1e17) in its second loop: the angle is more than pi, and
\* 2 pi less than it is the angle itself
C23_Witness ==
    /\ npc = "second loop"
    /\ angleInput = Huge(1)
    /\ runningAngle = angleInput
    /\ MoreThanPi(runningAngle)
    /\ MinusTwoPi(runningAngle) = runningAngle

\* whatever normalizeAngle returns is normalized, and it is what the
\* renderer's normalizeAngle gives
NormalizedWhenReturned ==
    npc = "returned" =>
        (Normalized /\ runningAngle = normalizeAngle(angleInput))

\* for the angles from -MaxAngle to MaxAngle normalizeAngle returns
ReturnsUnlessHuge == (~IsHuge(angleInput)) ~> (npc = "returned")

-----------------------------------------------------------------------------
(* Claims about the order of the nodes and the edges *)

\* the label resolves in the lookup of all nodes of the configuration,
\* wherever in the list its node stands
Resolves(l) == KnownLabel(l) \/ l \in ObjectPrototypeKeys

\* the edge i is drawn exactly if both of its labels resolve, and an edge
\* of one stroke between two nodes starts at the centre of the last node of
\* the label of node1 and ends at the centre of the last node of the label
\* of node2
DrawnWhateverTheOrder ==
    /\ \A i \in 1..Len(config.weathermapEdges) :
           EdgeEmitted(i) <=> (/\ Resolves(config.weathermapEdges[i].node1)
                               /\ Resolves(config.weathermapEdges[i].node2))
    /\ \A j \in 1..Len(svg.edgeGroup) :
           LET edge == config.weathermapEdges[svg.edgeGroup[j].of]
               segs == StrokeGroups(svg.edgeGroup[j])
           IN  (BothKnown(edge) /\ Len(segs[1].paths) = 1) =>
                   /\ segs[1].paths[1].d.start = RectCentre(NodeOf(edge.node1))
                   /\ segs[Len(segs)].paths[1].d.end = RectCentre(NodeOf(edge.node2))

\* C24: all nodes are placed, and the lookup of the labels is complete,
\* before any edge is resolved, so whether an edge is drawn depends on its
\* labels and the nodes of the configuration and not on the order of the
\* nodes and the edges, and an edge attaches to the last node of a label
\* that several nodes share
C24_OrderIrrelevant ==
    /\ rpc \notin {"start", "nodes"} =>
           state.nodeLabelToNode
               = LabelMapAfter(config.weathermapNodes, Len(config.weathermapNodes))
    /\ EdgesRan => DrawnWhateverTheOrder

\* the edge of the metric toString stands first and throws: the edge after
\* it, between two configured nodes, is not drawn
C24_Witness ==
    /\ rpc = "threwInEdges"
    /\ Len(config.weathermapEdges) = 2
    /\ config.weathermapEdges[1].metricName = Some("toString")
    /\ BothKnown(config.weathermapEdges[2])
    /\ EdgeEmitted(1)
    /\ ~EdgeEmitted(2)

\* when no edge throws, the edges drawn and the nodes they attach to are
\* as claimed
OrderIrrelevantUnlessThrown == EdgesPlaced => DrawnWhateverTheOrder

\* a state that is reached: the same two edges in the other order, both
\* drawn
OtherOrderDrawsBoth ==
    /\ rpc = "threwInEdges"
    /\ Len(config.weathermapEdges) = 2
    /\ config.weathermapEdges[2].metricName = Some("toString")
    /\ BothKnown(config.weathermapEdges[1])
    /\ EdgeEmitted(1)
    /\ EdgeEmitted(2)

-----------------------------------------------------------------------------
(* Claims about the inputs *)

\* C25: renderWeathermapInto does not modify its inputs: no step of it
\* changes the configuration, the order and content of
\* config.gradient.stops included, or the metric value map
C25_InputsUnchanged == [][config' = config /\ currentValues' = currentValues]_vars

\* a finished rendering of a configuration whose stops are not in ascending
\* order: the renderer has used them sorted, and the configuration has them
\* as before
C25_Witness ==
    /\ rpc = "done"
    /\ config.gradient.stops[1].position > config.gradient.stops[2].position
    /\ state.sortedGradient.stops # config.gradient.stops
    /\ state.sortedGradient.stops = Ascending(config.gradient.stops)
    /\ state.currentValues = currentValues

-----------------------------------------------------------------------------
(* Claims about a steps gradient without a stop *)

NoStopsWithLegend == config.gradient = NoStops /\ config.legend.type # <<>>

\* what renderWeathermapInto has built when placeLegend throws: every node,
\* the measured ones filled with the emergency colour that
\* gradientColorForValue returns for the gradient, every edge whose labels
\* resolve, and every label
BuiltBeforeLegend ==
    /\ Len(svg.nodeGroup) = Len(config.weathermapNodes)
    /\ \A i \in 1..Len(svg.nodeGroup) :
           OwnValue(config.weathermapNodes[i].metricName) =>
               StyleValue(svg.nodeGroup[i].rect.style, "fill") = Some(emergencyColor)
    /\ \A i \in 1..Len(config.weathermapEdges) :
           EdgeEmitted(i) <=> (/\ Resolves(config.weathermapEdges[i].node1)
                               /\ Resolves(config.weathermapEdges[i].node2))
    /\ Len(svg.labelGroup) = Len(config.weathermapLabels)
    /\ gradientColorForValue(state.sortedGradient, "strokeColor", Num(75)) = emergencyColor

\* C26: with a steps gradient without a stop and a legend type other than ""
\* renderWeathermapInto never returns normally: once the nodes, the edges
\* and the labels are placed, placeLegend throws in drawLegend in place of
\* an empty legend, with all that was built still in the svg, although
\* gradientColorForValue returns the emergency colour for the same gradient
\* without an error
C26_NoStopsLegendThrows ==
    NoStopsWithLegend =>
        /\ rpc # "done"
        /\ rpc = "threwInLegend" =>
              /\ BuiltBeforeLegend
              /\ Len(svg.legendGroup) = 1
              /\ svg.defs = <<>>

\* placeLegend has thrown for the gradient without a stop, after two edges
\* were drawn
C26_Witness ==
    /\ NoStopsWithLegend
    /\ rpc = "threwInLegend"
    /\ Len(svg.edgeGroup) = 2
    /\ Len(svg.nodeGroup) = 2
    /\ Len(svg.labelGroup) = 1

\* placeLegend throws for no other configuration
ThrowsInLegendOnlyWithoutStops == rpc = "threwInLegend" => NoStopsWithLegend

-----------------------------------------------------------------------------
(* Claims about the halves of a straight edge *)

\* the point q is the point halfway between p and r
Halfway(q, p, r) ==
    /\ 2 * q.x.num = p.x.num + r.x.num
    /\ 2 * q.y.num = p.y.num + r.y.num

\* C27: the two halves of an edge of two metrics without a bend are drawn
\* with the control points of the split of a straight line: every stroke of
\* either half is a curve ("C") and no line ("L"); the control points of the
\* first half are its start, at node1, and its end, at the middle of the
\* edge, those of the second half are its start, at the middle, and its
\* end, at node2, so all of them lie on the straight line between the ends
C27_StraightHalvesAreCurves ==
    EdgesPlaced =>
        \A j \in 1..Len(svg.edgeGroup) :
            LET edge == config.weathermapEdges[svg.edgeGroup[j].of]
                segs == StrokeGroups(svg.edgeGroup[j])
            IN  (edge.metric2Name # none /\ ~Bent(edge) /\ ProperEdge(edge)) =>
                    /\ Len(segs) = 2
                    /\ Len(segs[1].paths) = Len(segs[2].paths)
                    /\ \A k \in 1..Len(segs[1].paths) :
                          LET a == segs[1].paths[k].d
                              b == segs[2].paths[k].d
                          IN  /\ a.cmd = "C" /\ b.cmd = "C"
                              /\ a.control1 = a.start /\ a.control2 = a.end
                              /\ b.control1 = b.start /\ b.control2 = b.end
                              /\ b.start = a.end
                              /\ Halfway(a.end, a.start, b.end)
                    /\ Len(segs[1].paths) = 1 =>
                          /\ segs[1].paths[1].d.start = RectCentre(NodeOf(edge.node1))
                          /\ segs[2].paths[1].d.end = RectCentre(NodeOf(edge.node2))

\* the straight edge of two metrics from A to B: both halves drawn, the
\* first stroke of the first half a curve from its start to the middle
C27_Witness ==
    /\ EdgesPlaced
    /\ \E j \in 1..Len(svg.edgeGroup) :
          LET edge == config.weathermapEdges[svg.edgeGroup[j].of]
              segs == StrokeGroups(svg.edgeGroup[j])
          IN  /\ edge.metric2Name # none
              /\ ~Bent(edge)
              /\ ProperEdge(edge)
              /\ Len(segs) = 2
              /\ segs[1].paths[1].d.cmd = "C"
              /\ segs[1].paths[1].d.control1 = segs[1].paths[1].d.start
              /\ segs[1].paths[1].d.start # segs[1].paths[1].d.end
              /\ segs[2].paths[1].d.control1 = segs[1].paths[1].d.end

-----------------------------------------------------------------------------
(* Claims about the classes of the legend *)

\* C28: after placeLegend with a legend type other than "" the first group
\* of the legend, the ramp of the stroke colours, has the class
\* "fill-legend", the second, the ramp of the fill colours, has no class,
\* and no group has the class "stroke-legend"
C28_LegendClasses ==
    LegendPlaced =>
        /\ Len(svg.legendGroup) >= 2
        /\ svg.legendGroup[1].class = Some("fill-legend")
        /\ svg.legendGroup[2].class = none
        /\ \A i \in 1..Len(svg.legendGroup) : svg.legendGroup[i].class # Some("stroke-legend")

\* a placed legend of a linear gradient: the first ramp is filled with the
\* gradient of the stroke colours and has the class "fill-legend"
C28_Witness ==
    /\ LegendPlaced
    /\ config.gradient.type = "linear"
    /\ svg.legendGroup[1].class = Some("fill-legend")
    /\ svg.legendGroup[1].children[1].style
          = << <<"fill", <<"url(#">> \o <<"WeathermapLegendGradient-", "strokeColor", "-">>
                             \o Dec(config.id) \o <<")">> >> >>
    /\ svg.legendGroup[2].class = none

-----------------------------------------------------------------------------
(* Claims about the reversal of a curve *)

Reversed(s) == [i \in 1..Len(s) |-> s[Len(s) + 1 - i]]

\* C29: halveCubicBezier is symmetric under the reversal of the curve: for
\* all end points and all control points, each of which may be null,
\* halveCubicBezier(p2, c2, c1, p1) is the 7-tuple of
\* halveCubicBezier(p1, c1, c2, p2) in reverse order
C29_ReversalSymmetry ==
    depth >= 1 =>
        halveCubicBezier(curve.end, curve.control2, curve.control1, curve.start)
            = Reversed(halved)

\* a curve with its first control point alone missing, and ends that differ:
\* its split is not its own reverse
C29_Witness ==
    /\ depth >= 1
    /\ curve.control1 = null
    /\ curve.control2 # null
    /\ curve.start # curve.end
    /\ Len(halved) = 7
    /\ halved # Reversed(halved)
    /\ halveCubicBezier(curve.end, curve.control2, curve.control1, curve.start)[2] = halved[6]

-----------------------------------------------------------------------------
(* Claims about the calls of lerp *)

\* the channel Math.floor makes of what lerp returns for a call
ChannelOf(c) == Floor(lerp(c.value, c.sourceMin, c.sourceMax, c.targetMin, c.targetMax))

WithinChannels(n, a, b) == (a <= n /\ n <= b) \/ (b <= n /\ n <= a)

\* C30: linearColorForValue calls lerp only with sourceMin < sourceMax and
\* sourceMin <= value < sourceMax, also when stops share a position: lerp
\* never divides by zero and never clamps the value, and every channel of
\* the colour returned is an integer between the channel values of the two
\* stops, these included
C30_LerpArguments ==
    (gpc = "returned" /\ gradient.type = "linear") =>
        LET calls == LerpCalls(gradient.stops, colorType, value)
        IN  /\ \A k \in 1..Len(calls) :
                   /\ calls[k].sourceMin < calls[k].sourceMax
                   /\ calls[k].sourceMin <= calls[k].value
                   /\ calls[k].value < calls[k].sourceMax
                   /\ LerpClamp(calls[k].value, calls[k].sourceMin, calls[k].sourceMax)
                          = calls[k].value
                   /\ WithinChannels(ChannelOf(calls[k]), calls[k].targetMin, calls[k].targetMax)
            /\ calls # <<>> =>
                   result = RgbString(ChannelOf(calls[1]), ChannelOf(calls[2]),
                                      ChannelOf(calls[3]))
            /\ calls = <<>> =>
                   \/ result = emergencyColor
                   \/ \E i \in 1..Len(gradient.stops) : result = gradient.stops[i][colorType]

\* two stops share the position 50 and the value 75 is interpolated between
\* the second of them and the stop at 100
C30_Witness ==
    /\ gpc = "returned"
    /\ gradient.type = "linear"
    /\ Len(gradient.stops) = 3
    /\ gradient.stops[1].position = 50
    /\ gradient.stops[2].position = 50
    /\ gradient.stops[3].position = 100
    /\ value = Num(75)
    /\ Len(LerpCalls(gradient.stops, colorType, value)) = 3
    /\ LerpCalls(gradient.stops, colorType, value)[1].sourceMin = 50
    /\ gradient.stops[2][colorType] # gradient.stops[3][colorType]
    /\ result \notin {gradient.stops[2][colorType], gradient.stops[3][colorType], emergencyColor}

====
